---- MODULE Spec2Model ----
(***************************************************************************)
(* Model of the webid operator: the WebServer ("Site") reconciler, the     *)
(* Page reconciler, the page-data cache they share, and the part of the    *)
(* API server and of the controller work queue that their code relies on.  *)
(*                                                                         *)
(* A reconcile call is one action.  Every backend call made inside a call  *)
(* may succeed or fail, so a call has a set of possible outcomes; the      *)
(* operators below compute that set by following the code of the handler   *)
(* statement by statement.  A computation in progress is a record          *)
(*   [w: the world, ops: the backend calls issued so far, err: the error   *)
(*    the call is returning, nf: the number of failed backend calls].      *)
(***************************************************************************)
EXTENDS Integers, Sequences, FiniteSets, TLC

VARIABLES
    webservers,   \* WebServer objects by name
    deployments,  \* Deployment objects by name
    configMaps,   \* ConfigMap objects by name
    services,     \* Service objects by name
    ingresses,    \* Ingress objects by name
    pages,        \* Page objects by name
    Data,         \* Reconciler.Data: the page-data cache, by WebServer name
    webQueue,     \* WebServer names with a reconcile request pending in the work queue
    call,         \* the last reconcile call: controller, name, result, backend calls
    nUser,        \* number of user operations so far
    nFault,       \* number of reconcile calls so far in which a backend call failed
    mu,           \* Reconciler.mu: the worker that holds the mutex of the cache, or Unlocked
    worker        \* where each controller's worker stands inside a reconcile call

vars == <<webservers, deployments, configMaps, services, ingresses, pages,
          Data, webQueue, call, nUser, nFault, mu, worker>>

----------------------------------------------------------------------------
(* Bounds *)

MaxUserOps == 2
MaxFaults == 1

(* Names and values the users choose from.  Strings that are hashed or     *)
(* compared bytewise (page names, page contents) are sequences of bytes.   *)
WebNames == {"s1", "s2"}
PageIds == {"p1", "p2"}
Images == {"x:1", "x:2"}
ReplicaCounts == {1, 2}
PageNames == {<<1>>, <<1, 2>>}
PageContents == {<<>>, <<2>>}

----------------------------------------------------------------------------
(* Values *)

\* A Go nil map (or an absent annotation) and a present value.
Nil == <<>>
Some(v) == <<v>>
IsNil(o) == o = Nil
Val(o) == o[1]

EmptyMap == [k \in {} |-> <<>>]
NoErr == "nil"
NoObj == [exists |-> FALSE]

typeAvailableWeb == "Available"
pageFinalizer == "tomasji.github.com/finalizer"

ConfigCMName(base) == base \o "-config"
DataCMName(base) == base \o "-data"
CMNames == {ConfigCMName(s) : s \in WebNames} \cup {DataCMName(s) : s \in WebNames}

fileConfig == <<7>>
nginxConfigData == <<8>>

\* The WebServer type has the status subresource: an Update of the object
\* leaves its status alone, a Status().Update leaves everything but the status.
StatusSubresource == TRUE

----------------------------------------------------------------------------
(* The world and a computation in progress *)

World == [webservers |-> webservers, deployments |-> deployments,
          configMaps |-> configMaps, services |-> services,
          ingresses |-> ingresses, pages |-> pages, Data |-> Data,
          webQueue |-> webQueue]

Start(w) == [w |-> w, ops |-> <<>>, err |-> NoErr, nf |-> 0]

\* One backend call as the call log records it; res is "ok", "notfound" or "error".
Op(verb, kind, name, res) == [verb |-> verb, kind |-> kind, name |-> name, res |-> res]

\* The error value a failed backend call returns.
Err(verb, kind) == verb \o " " \o kind \o " failed"

\* The backend call was issued and answered (found, not found, done).
Log(c, verb, kind, name, res) == [c EXCEPT !.ops = Append(@, Op(verb, kind, name, res))]

\* The backend call was issued and failed; the caller receives Err(verb, kind).
Fault(c, verb, kind, name) ==
    [c EXCEPT !.ops = Append(@, Op(verb, kind, name, "error")), !.nf = @ + 1]

\* A watch event for WebServer s (or for an object it owns) that passed the
\* event filter: a reconcile request for s enters the work queue.
Enqueue(c, s) == [c EXCEPT !.w.webQueue = @ \cup {s}]

----------------------------------------------------------------------------
(* Status conditions (meta.SetStatusCondition) *)

Condition(type, status, reason, message) ==
    [type |-> type, status |-> status, reason |-> reason, message |-> message]

HasCondition(conds, type) == \E i \in 1..Len(conds) : conds[i].type = type

\* A SetStatusCondition that appends without looking for an entry of the type.
SetStatusCondition_Append(conds, new) == Append(conds, new)

\* A SetStatusCondition that drops the entry of the type and appends the new one.
SetStatusCondition_MoveToEnd(conds, new) ==
    Append(SelectSeq(conds, LAMBDA x : x.type # new.type), new)

\* Replace the entry of the same type in place, or append.
SetStatusCondition(conds, new) ==
    IF HasCondition(conds, new.type)
    THEN [i \in 1..Len(conds) |-> IF conds[i].type = new.type THEN new ELSE conds[i]]
    ELSE Append(conds, new)

FindCondition(conds, type) ==
    IF HasCondition(conds, type)
    THEN Some(conds[CHOOSE i \in 1..Len(conds) : conds[i].type = type])
    ELSE Nil

----------------------------------------------------------------------------
(* The WebServer controller's event filter and watches *)

\* UpdateFunc of webServerEventFilter: an update passes iff the generation changed.
webServerEventFilter(old, new) == old.generation # new.generation

\* The API server's rule for the generation of a WebServer: it grows when the
\* spec changes, not when only metadata or status change.
NextGeneration(old, new) ==
    IF old.image # new.image \/ old.replicas # new.replicas
    THEN old.generation + 1
    ELSE old.generation

\* r.Update(ctx, web): spec and metadata are stored, the status is stored only
\* without the status subresource; the update event goes through the filter.
UpdateWebServer(c, s, new) ==
    LET old == c.w.webservers[s]
        stored == [new EXCEPT !.generation = NextGeneration(old, new),
                              !.conditions = IF StatusSubresource THEN old.conditions ELSE @]
        c1 == [c EXCEPT !.w.webservers[s] = stored]
    IN  IF webServerEventFilter(old, stored) THEN Enqueue(c1, s) ELSE c1

\* r.Status().Update(ctx, web): only the status is stored.
UpdateWebServerStatus(c, s, conds) ==
    LET old == c.w.webservers[s]
        stored == [old EXCEPT !.conditions = conds]
        c1 == [c EXCEPT !.w.webservers[s] = stored]
    IN  IF webServerEventFilter(old, stored) THEN Enqueue(c1, s) ELSE c1

----------------------------------------------------------------------------
(* webserver.Reconciler *)

\* A setStatus that returns the object it updated without fetching it again.
setStatus_NoRefetch(c, s, status, message) ==
    LET conds == SetStatusCondition(c.w.webservers[s].conditions,
                     Condition(typeAvailableWeb, status, "Reconciling", message))
    IN  { [Fault(c, "StatusUpdate", "WebServer", s) EXCEPT !.err = Err("StatusUpdate", "WebServer")],
          Log(UpdateWebServerStatus(c, s, conds), "StatusUpdate", "WebServer", s, "ok") }

\* setStatus: upsert the Available condition, Status().Update, re-fetch.
setStatus(c, s, status, message) ==
    LET conds == SetStatusCondition(c.w.webservers[s].conditions,
                     Condition(typeAvailableWeb, status, "Reconciling", message))
        updated == Log(UpdateWebServerStatus(c, s, conds), "StatusUpdate", "WebServer", s, "ok")
    IN  { [Fault(c, "StatusUpdate", "WebServer", s) EXCEPT !.err = Err("StatusUpdate", "WebServer")],
          [Fault(updated, "Get", "WebServer", s) EXCEPT !.err = Err("Get", "WebServer")],
          Log(updated, "Get", "WebServer", s, "ok") }

\* A failWithStatus that returns the error of the status write when that fails.
failWithStatus_Masking(c, s, err, msg) ==
    { IF x.err \in {Err("StatusUpdate", "WebServer"), Err("Get", "WebServer")}
      THEN x ELSE [x EXCEPT !.err = err] :
        x \in setStatus(Log(c, "log.Error", "", msg, "ok"), s, "False", "Failed to create deployment") }

\* A failWithStatus that logs and returns the error without writing the status.
failWithStatus_Silent(c, s, err, msg) ==
    { [Log(c, "log.Error", "", msg, "ok") EXCEPT !.err = err] }

\* failWithStatus: log, try to set Available=False, return the original error.
\* The condition message is the same literal for every caller; msg is only logged.
failWithStatus(c, s, err, msg) ==
    { [x EXCEPT !.err = err] :
        x \in setStatus(Log(c, "log.Error", "", msg, "ok"), s, "False", "Failed to create deployment") }

\* A step that reports the failure of its helper in the status and then carries on.
FailOrPass_CarryOn(C, s, msg) ==
    UNION { IF x.err # NoErr
            THEN { [y EXCEPT !.err = NoErr] : y \in failWithStatus(x, s, x.err, msg) }
            ELSE {x} : x \in C }

\* What a step does with the outcomes of a create or update helper.
FailOrPass(C, s, msg) ==
    UNION { IF x.err # NoErr THEN failWithStatus(x, s, x.err, msg) ELSE {x} : x \in C }

\* The ConfigMap as the API server returns it: binaryData is omitted when
\* empty, so an empty map reads back as a nil map.
StoredBinaryData(items) == IF items = Some(EmptyMap) THEN Nil ELSE items

\* createDeployment: one container "main" with the spec's image, the spec's
\* replica count, owned by the WebServer.
\* A createDeployment that leaves the replica count at the default of 1.
createDeployment_OneReplica(c, s) ==
    LET web == c.w.webservers[s]
        deployment == [exists |-> TRUE, containers |-> <<web.image>>,
                       replicas |-> 1, owner |-> s]
    IN  { [Fault(c, "Create", "Deployment", s) EXCEPT !.err = Err("Create", "Deployment")],
          Enqueue(Log([c EXCEPT !.w.deployments[s] = deployment],
                      "Create", "Deployment", s, "ok"), s) }

createDeployment(c, s) ==
    LET web == c.w.webservers[s]
        deployment == [exists |-> TRUE, containers |-> <<web.image>>,
                       replicas |-> web.replicas, owner |-> s]
    IN  { [Fault(c, "Create", "Deployment", s) EXCEPT !.err = Err("Create", "Deployment")],
          Enqueue(Log([c EXCEPT !.w.deployments[s] = deployment],
                      "Create", "Deployment", s, "ok"), s) }

\* A comparison that looks at the image only.
deploymentDiffers_ImageOnly(web, deployment) ==
    IF Len(deployment.containers) # 1
    THEN TRUE
    ELSE web.image # deployment.containers[1]

\* deploymentDiffers: not exactly one container, or another image or replica count.
deploymentDiffers(web, deployment) ==
    IF Len(deployment.containers) # 1
    THEN TRUE
    ELSE web.image # deployment.containers[1] \/ web.replicas # deployment.replicas

ErrContainers == "deployment has not 1 container"

\* An update that does not look at the number of containers.
updateDeployment_Unchecked(c, s) ==
    LET web == c.w.webservers[s]
        deployment == c.w.deployments[s]
        updated == [deployment EXCEPT !.containers = <<web.image>>, !.replicas = web.replicas]
    IN  { [Fault(c, "Update", "Deployment", s) EXCEPT !.err = Err("Update", "Deployment")],
          Enqueue(Log([c EXCEPT !.w.deployments[s] = updated],
                      "Update", "Deployment", s, "ok"), s) }

\* updateDeployment: a Deployment without exactly one container is deleted and
\* an error returned; otherwise image and replicas are set and it is updated.
updateDeployment(c, s) ==
    LET web == c.w.webservers[s]
        deployment == c.w.deployments[s]
        updated == [deployment EXCEPT !.containers = <<web.image>>, !.replicas = web.replicas]
    IN  IF Len(deployment.containers) # 1
        THEN { [Fault(c, "Delete", "Deployment", s) EXCEPT !.err = ErrContainers],
               [Enqueue(Log([c EXCEPT !.w.deployments[s] = NoObj],
                            "Delete", "Deployment", s, "ok"), s)
                   EXCEPT !.err = ErrContainers] }
        ELSE { [Fault(c, "Update", "Deployment", s) EXCEPT !.err = Err("Update", "Deployment")],
               Enqueue(Log([c EXCEPT !.w.deployments[s] = updated],
                           "Update", "Deployment", s, "ok"), s) }

\* reconcileDeployment: fetch; create when not found; update when it differs.
reconcileDeployment(c, s) ==
    LET web == c.w.webservers[s]
        deployment == c.w.deployments[s]
    IN  failWithStatus(Fault(c, "Get", "Deployment", s), s,
                       Err("Get", "Deployment"), "Failed to fetch deployment")
        \cup
        IF ~deployment.exists
        THEN FailOrPass(createDeployment(Log(c, "Get", "Deployment", s, "notfound"), s),
                        s, "Failed to create deployment")
        ELSE IF deploymentDiffers(web, deployment)
             THEN FailOrPass(updateDeployment(Log(c, "Get", "Deployment", s, "ok"), s),
                             s, "Failed to update deployment")
             ELSE {Log(c, "Get", "Deployment", s, "ok")}

\* createConfigMap: a ConfigMap with the given name and items, owned by the WebServer.
createConfigMap(c, s, name, items) ==
    LET configMap == [exists |-> TRUE, binaryData |-> StoredBinaryData(items), owner |-> s]
    IN  { [Fault(c, "Create", "ConfigMap", name) EXCEPT !.err = Err("Create", "ConfigMap")],
          Enqueue(Log([c EXCEPT !.w.configMaps[name] = configMap],
                      "Create", "ConfigMap", name, "ok"), s) }

createConfigCM(c, s) ==
    createConfigMap(c, s, ConfigCMName(s), Some([k \in {fileConfig} |-> nginxConfigData]))

\* A reconcileConfigCM that writes the nginx configuration back when it was changed.
reconcileConfigCM_Repairing(c, s) ==
    LET cmName == ConfigCMName(s)
        found == Log(c, "Get", "ConfigMap", cmName, "ok")
        wanted == Some([k \in {fileConfig} |-> nginxConfigData])
    IN  failWithStatus(Fault(c, "Get", "ConfigMap", cmName), s,
                       Err("Get", "ConfigMap"), "Failed to fetch configMap")
        \cup
        IF ~c.w.configMaps[cmName].exists
        THEN FailOrPass(createConfigCM(Log(c, "Get", "ConfigMap", cmName, "notfound"), s),
                        s, "Failed to create configMap")
        ELSE IF c.w.configMaps[cmName].binaryData # wanted
             THEN {Log([found EXCEPT !.w.configMaps[cmName].binaryData = wanted],
                       "Update", "ConfigMap", cmName, "ok")}
             ELSE {found}

\* reconcileConfigCM: fetch; create when not found; never updated.
reconcileConfigCM(c, s) ==
    LET cmName == ConfigCMName(s)
    IN  failWithStatus(Fault(c, "Get", "ConfigMap", cmName), s,
                       Err("Get", "ConfigMap"), "Failed to fetch configMap")
        \cup
        IF ~c.w.configMaps[cmName].exists
        THEN FailOrPass(createConfigCM(Log(c, "Get", "ConfigMap", cmName, "notfound"), s),
                        s, "Failed to create configMap")
        ELSE {Log(c, "Get", "ConfigMap", cmName, "ok")}

\* GetData: the cached page data of a WebServer; nil when nothing is cached.
GetData(c, s) == c.w.Data[s]

\* SetData: store the page data of a WebServer in the cache.
SetData(c, s, data) == [c EXCEPT !.w.Data[s] = data]

\* A comparison that looks at the keys only.
DataDiffer_KeysOnly(oldData, newData) ==
    IF IsNil(oldData) /\ IsNil(newData) THEN FALSE
    ELSE IF IsNil(oldData) \/ IsNil(newData) THEN TRUE
    ELSE IF Cardinality(DOMAIN Val(oldData)) # Cardinality(DOMAIN Val(newData)) THEN TRUE
    ELSE \E k \in DOMAIN Val(oldData) : k \notin DOMAIN Val(newData)

\* A comparison without the check of the lengths.
DataDiffer_NoLenCheck(oldData, newData) ==
    IF IsNil(oldData) /\ IsNil(newData) THEN FALSE
    ELSE IF IsNil(oldData) \/ IsNil(newData) THEN TRUE
    ELSE \E k \in DOMAIN Val(oldData) :
            \/ k \notin DOMAIN Val(newData)
            \/ Val(oldData)[k] # Val(newData)[k]

\* A comparison that reports a difference every time.
DataDiffer_Always(oldData, newData) == TRUE

\* DataDiffer: compares two maps, either of which may be nil.
DataDiffer(oldData, newData) ==
    IF IsNil(oldData) /\ IsNil(newData) THEN FALSE
    ELSE IF IsNil(oldData) \/ IsNil(newData) THEN TRUE
    ELSE IF Cardinality(DOMAIN Val(oldData)) # Cardinality(DOMAIN Val(newData)) THEN TRUE
    ELSE \E k \in DOMAIN Val(oldData) :
            \/ k \notin DOMAIN Val(newData)
            \/ Val(oldData)[k] # Val(newData)[k]

\* A comparison that never reports a difference.
configMapDiffers_Never(configMap, data) == FALSE

configMapDiffers(configMap, data) == DataDiffer(configMap.binaryData, data)

createDataCM(c, s) == createConfigMap(c, s, DataCMName(s), GetData(c, s))

\* updateConfigMap: replace binaryData and update.  A ConfigMap has no
\* generation, so its update event does not pass the event filter.
updateConfigMap(c, name, data) ==
    { [Fault(c, "Update", "ConfigMap", name) EXCEPT !.err = Err("Update", "ConfigMap")],
      Log([c EXCEPT !.w.configMaps[name].binaryData = StoredBinaryData(data)],
          "Update", "ConfigMap", name, "ok") }

\* reconcileDataCM: fetch; create with the cached data when not found; update
\* to the cached data when the stored data differs from it.
reconcileDataCM(c, s) ==
    LET cmName == DataCMName(s)
        configMap == c.w.configMaps[cmName]
        found == Log(c, "Get", "ConfigMap", cmName, "ok")
        data == GetData(c, s)
    IN  failWithStatus(Fault(c, "Get", "ConfigMap", cmName), s,
                       Err("Get", "ConfigMap"), "Failed to fetch configMap")
        \cup
        IF ~configMap.exists
        THEN FailOrPass(createDataCM(Log(c, "Get", "ConfigMap", cmName, "notfound"), s),
                        s, "Failed to create configMap")
        ELSE IF configMapDiffers(configMap, data)
             THEN FailOrPass(updateConfigMap(found, cmName, data), s, "Failed to update configMap")
             ELSE {found}

\* createService: port 80 named "http", owned by the WebServer.
createService(c, s) ==
    LET service == [exists |-> TRUE, port |-> 80, owner |-> s]
    IN  { [Fault(c, "Create", "Service", s) EXCEPT !.err = Err("Create", "Service")],
          Enqueue(Log([c EXCEPT !.w.services[s] = service], "Create", "Service", s, "ok"), s) }

\* reconcileService: fetch; create when not found; never updated.
reconcileService(c, s) ==
    failWithStatus(Fault(c, "Get", "Service", s), s,
                   Err("Get", "Service"), "Failed to fetch service")
    \cup
    IF ~c.w.services[s].exists
    THEN FailOrPass(createService(Log(c, "Get", "Service", s, "notfound"), s),
                    s, "Failed to create service")
    ELSE {Log(c, "Get", "Service", s, "ok")}

\* An Ingress created without an owner reference.
createIngress_Unowned(c, s) ==
    LET ingress == [exists |-> TRUE, backend |-> s, owner |-> ""]
    IN  { [Fault(c, "Create", "Ingress", s) EXCEPT !.err = Err("Create", "Ingress")],
          Enqueue(Log([c EXCEPT !.w.ingresses[s] = ingress], "Create", "Ingress", s, "ok"), s) }

\* createIngress: path "/" to the Service's http port, owned by the WebServer.
createIngress(c, s) ==
    LET ingress == [exists |-> TRUE, backend |-> s, owner |-> s]
    IN  { [Fault(c, "Create", "Ingress", s) EXCEPT !.err = Err("Create", "Ingress")],
          Enqueue(Log([c EXCEPT !.w.ingresses[s] = ingress], "Create", "Ingress", s, "ok"), s) }

\* reconcileIngress: fetch; create when not found; never updated.
reconcileIngress(c, s) ==
    failWithStatus(Fault(c, "Get", "Ingress", s), s,
                   Err("Get", "Ingress"), "Failed to fetch ingress")
    \cup
    IF ~c.w.ingresses[s].exists
    THEN FailOrPass(createIngress(Log(c, "Get", "Ingress", s, "notfound"), s),
                    s, "Failed to create ingress")
    ELSE {Log(c, "Get", "Ingress", s, "ok")}

\* The loop over reconcileFuncs: a step runs only when none before it failed.
Then(C, step) ==
    LET Live == { x \in C : x.err = NoErr }
    IN  (C \ Live) \cup UNION { step[x] : x \in Live }

\* A getObj that returns the not-found error to its caller.
getObj_NotFoundIsError(c, s) ==
    { [Fault(c, "Get", "WebServer", s) EXCEPT !.err = Err("Get", "WebServer")],
      IF c.w.webservers[s].exists
      THEN Log(c, "Get", "WebServer", s, "ok")
      ELSE [Log(c, "Get", "WebServer", s, "notfound") EXCEPT !.err = "WebServer not found"] }

\* getObj: the error of a failed Get; nil and no error when not found; else the object.
getObj(c, s) ==
    { [Fault(c, "Get", "WebServer", s) EXCEPT !.err = Err("Get", "WebServer")],
      IF c.w.webservers[s].exists
      THEN Log(c, "Get", "WebServer", s, "ok")
      ELSE Log(c, "Get", "WebServer", s, "notfound") }

\* Reconcile of WebServer s: the set of its possible outcomes.
WebReconcile(w, s) ==
    LET c0 == Start(w)
        StepDeployment(x) == reconcileDeployment(x, s)
        StepConfigCM(x) == reconcileConfigCM(x, s)
        StepDataCM(x) == reconcileDataCM(x, s)
        StepService(x) == reconcileService(x, s)
        StepIngress(x) == reconcileIngress(x, s)
        Finish(x) == setStatus(x, s, "True", "Finished reconciliation")
        Steps(got) ==
            LET begun == IF Len(w.webservers[s].conditions) = 0
                         THEN setStatus(got, s, "Unknown", "Starting reconciliation")
                         ELSE {got}
                c1 == Then(begun, [x \in begun |-> StepDeployment(x)])
                c2 == Then(c1, [x \in c1 |-> StepConfigCM(x)])
                c3 == Then(c2, [x \in c2 |-> StepDataCM(x)])
                c4 == Then(c3, [x \in c3 |-> StepService(x)])
                c5 == Then(c4, [x \in c4 |-> StepIngress(x)])
            IN  Then(c5, [x \in c5 |-> Finish(x)])
    \* web == nil: return ctrl.Result{}, err
    IN  UNION { IF got.err # NoErr \/ ~w.webservers[s].exists THEN {got} ELSE Steps(got)
                : got \in getObj(c0, s) }

----------------------------------------------------------------------------
(* pages.Reconciler *)

\* The orders in which a List call may return a set of objects.
Orders(S) == { o \in [1..Cardinality(S) -> S] : \A i, j \in DOMAIN o : o[i] = o[j] => i = j }

\* A map store that keeps the value a key has already.
Put_KeepFirst(m, k, v) == [x \in DOMAIN m \cup {k} |-> IF x \in DOMAIN m THEN m[x] ELSE v]

Put(m, k, v) == [x \in DOMAIN m \cup {k} |-> IF x = k THEN v ELSE m[x]]

\* A loop over list.Items that does not skip the pages marked for deletion.
RECURSIVE CollectData_KeepDeleted(_, _, _)
CollectData_KeepDeleted(items, i, newData) ==
    IF i > Len(items) THEN newData
    ELSE CollectData_KeepDeleted(items, i + 1, Put(newData, items[i].name, items[i].contents))

\* The loop of prepareData over list.Items: pages marked for deletion are
\* skipped, a later page overwrites an earlier one of the same name.
RECURSIVE CollectData(_, _, _)
CollectData(items, i, newData) ==
    IF i > Len(items) THEN newData
    ELSE CollectData(items, i + 1,
             IF items[i].deleting THEN newData
             ELSE Put(newData, items[i].name, items[i].contents))

\* Bytewise order of strings (sort.Strings).
StrLess(a, b) ==
    \E i \in 1..(Len(b)) :
        /\ \A j \in 1..(i - 1) : j <= Len(a) /\ a[j] = b[j]
        /\ (i > Len(a) \/ (i - 1 < Len(a) /\ a[i] < b[i]))

RECURSIVE SortStrings(_)
SortStrings(S) ==
    IF S = {} THEN <<>>
    ELSE LET least == CHOOSE k \in S : \A x \in S \ {k} : StrLess(k, x)
         IN  <<least>> \o SortStrings(S \ {least})

\* A hash input made of the keys alone.
RECURSIVE HashInput_KeysOnly(_, _)
HashInput_KeysOnly(data, keys) ==
    IF keys = <<>> THEN <<>>
    ELSE Head(keys) \o HashInput_KeysOnly(data, Tail(keys))

\* What makeHash writes into the hash: each key in sorted order, then its value.
RECURSIVE HashInput(_, _)
HashInput(data, keys) ==
    IF keys = <<>> THEN <<>>
    ELSE Head(keys) \o data[Head(keys)] \o HashInput(data, Tail(keys))

\* SHA-1 and base64 of a byte sequence, taken to be free of collisions.
Sha1Base64(bytes) == [sha1 |-> bytes]

makeHash(data) == Sha1Base64(HashInput(data, SortStrings(DOMAIN data)))

\* The items of a page list as the call receives them, in their order.
RECURSIVE Listed(_, _, _)
Listed(c, order, i) ==
    IF i > Len(order) THEN c
    ELSE Listed(Log(c, "Item", "Page", order[i], "ok"), order, i + 1)

\* prepareData: list the pages of the WebServer, build the map, and store it
\* when it differs from the cached one.  The result is the computation, the
\* changed flag, the hash and the error.
prepareData(c, s) ==
    LET listed == { p \in PageIds : c.w.pages[p].exists /\ c.w.pages[p].webserver = s }
        Outcome(order) ==
            LET items == [i \in DOMAIN order |-> c.w.pages[order[i]]]
                got == Listed(Log(c, "List", "Page", s, "ok"), order, 1)
                newData == Some(CollectData(items, 1, EmptyMap))
                oldData == GetData(got, s)
            IN  IF DataDiffer(oldData, newData)
                THEN [c |-> Log(SetData(Log(got, "GetData", "Data", s, "ok"), s, newData),
                                "SetData", "Data", s, "ok"),
                      changed |-> TRUE, sha |-> makeHash(Val(newData)), err |-> NoErr]
                ELSE [c |-> Log(got, "GetData", "Data", s, "ok"),
                      changed |-> FALSE, sha |-> "", err |-> NoErr]
    IN  { [c |-> Fault(c, "List", "Page", s), changed |-> FALSE, sha |-> "",
           err |-> Err("List", "Page")] }
        \cup { Outcome(order) : order \in Orders(listed) }

\* setWebStatus: upsert UpToDate=False, set the "pages" annotation, Update.
setWebStatus(c, s, hash) ==
    LET web == c.w.webservers[s]
        new == [web EXCEPT
                  !.conditions = SetStatusCondition(@,
                      Condition("UpToDate", "False", "PageChanged", "Reconciling")),
                  !.pagesAnnotation = Some(hash)]
    IN  { [Fault(c, "Update", "WebServer", s) EXCEPT !.err = Err("Update", "WebServer")],
          Log(UpdateWebServer(c, s, new), "Update", "WebServer", s, "ok") }

\* An addFinalizer that updates the page whether or not it has the finalizer.
addFinalizer_Always(c, p) ==
    { [Fault(c, "Update", "Page", p) EXCEPT !.err = Err("Update", "Page")],
      Log([c EXCEPT !.w.pages[p].finalizer = TRUE], "Update", "Page", p, "ok") }

\* addFinalizer: add the finalizer and Update, unless the page has it already.
addFinalizer(c, p) ==
    IF c.w.pages[p].finalizer
    THEN {c}
    ELSE { [Fault(c, "Update", "Page", p) EXCEPT !.err = Err("Update", "Page")],
           Log([c EXCEPT !.w.pages[p].finalizer = TRUE], "Update", "Page", p, "ok") }

\* removeFinalizer: remove the finalizer and Update, unless the page has none.
\* A page marked for deletion is gone once its last finalizer is.
removeFinalizer(c, p) ==
    IF ~c.w.pages[p].finalizer
    THEN {c}
    ELSE { [Fault(c, "Update", "Page", p) EXCEPT !.err = Err("Update", "Page")],
           Log([c EXCEPT !.w.pages[p] = IF @.deleting THEN NoObj
                                        ELSE [@ EXCEPT !.finalizer = FALSE]],
               "Update", "Page", p, "ok") }

ErrNotFound == "WebServer not found"

\* A getWebServer that swallows the error of a failed Get of a WebServer that is there.
getWebServer_Silent(c, s) ==
    { [Fault(c, "Get", "WebServer", s) EXCEPT
          !.err = IF c.w.webservers[s].exists THEN NoErr ELSE Err("Get", "WebServer")],
      IF c.w.webservers[s].exists
      THEN Log(c, "Get", "WebServer", s, "ok")
      ELSE [Log(c, "Get", "WebServer", s, "notfound") EXCEPT !.err = ErrNotFound] }

\* getWebServer: the WebServer of the page; not found is an error like any other.
getWebServer(c, s) ==
    { [Fault(c, "Get", "WebServer", s) EXCEPT !.err = Err("Get", "WebServer")],
      IF c.w.webservers[s].exists
      THEN Log(c, "Get", "WebServer", s, "ok")
      ELSE [Log(c, "Get", "WebServer", s, "notfound") EXCEPT !.err = ErrNotFound] }

\* getPage: the error of a failed Get; nil and no error when not found; else the page.
getPage(c, p) ==
    { [Fault(c, "Get", "Page", p) EXCEPT !.err = Err("Get", "Page")],
      IF c.w.pages[p].exists
      THEN Log(c, "Get", "Page", p, "ok")
      ELSE Log(c, "Get", "Page", p, "notfound") }

\* Reconcile of Page p: the set of its possible outcomes.
PageReconcile(w, p) ==
    LET c0 == Start(w)
        page == w.pages[p]
        s == page.webserver
        markedForDeletion == page.deleting
        AddFinalizer(x) == IF ~markedForDeletion THEN addFinalizer(x, p) ELSE {x}
        GetWeb(x) == getWebServer(x, s)
        \* the error of prepareData is logged and dropped
        Prepare(x) ==
            UNION { IF d.changed THEN setWebStatus(d.c, s, d.sha) ELSE {d.c}
                    : d \in prepareData(x, s) }
        RemoveFinalizer(x) == IF markedForDeletion THEN removeFinalizer(x, p) ELSE {x}
        Steps(got) ==
            LET c1 == {got}
                c2 == Then(c1, [x \in c1 |-> AddFinalizer(x)])
                c3 == Then(c2, [x \in c2 |-> GetWeb(x)])
                c4 == Then(c3, [x \in c3 |-> Prepare(x)])
            IN  Then(c4, [x \in c4 |-> RemoveFinalizer(x)])
    \* page == nil: return ctrl.Result{}, err
    IN  UNION { IF got.err # NoErr \/ ~page.exists THEN {got} ELSE Steps(got)
                : got \in getPage(c0, p) }

----------------------------------------------------------------------------
(* The state machine *)

NoCall == [ctrl |-> "none", name |-> "", err |-> NoErr, ops |-> <<>>]

\* The workers of the Page controller.  main leaves MaxConcurrentReconciles at
\* its default, one worker, "page"; the manager may be given more, and "page2"
\* is a second worker, which reconciles another page than "page" does.
PageWorkers == {"page", "page2"}

\* The workers of the two controllers.
Workers == PageWorkers \cup {"webserver"}

Unlocked == "unlocked"

\* A worker between two reconcile calls.
Idle == [pc |-> "idle", site |-> "", newData |-> Nil, oldData |-> Nil]

\* No reconcile call is under way.
AllIdle == mu = Unlocked /\ worker = [w \in Workers |-> Idle]

DefaultImage == "x:1"
DefaultReplicas == 1

NewWebServer(image, replicas) ==
    [exists |-> TRUE, image |-> image, replicas |-> replicas, generation |-> 1,
     conditions |-> <<>>, pagesAnnotation |-> Nil]

NewPage(name, contents, s) ==
    [exists |-> TRUE, name |-> name, contents |-> contents, webserver |-> s,
     deleting |-> FALSE, finalizer |-> FALSE]

\* The operator starts with an empty cache and has reconciled nothing yet.
\* The WebServers named in W may exist already, with the default spec.
InitWith(W) ==
    /\ webservers \in [WebNames -> {NoObj, NewWebServer(DefaultImage, DefaultReplicas)}]
    /\ \A s \in WebNames \ W : ~webservers[s].exists
    /\ deployments = [s \in WebNames |-> NoObj]
    /\ configMaps = [n \in CMNames |-> NoObj]
    /\ services = [s \in WebNames |-> NoObj]
    /\ ingresses = [s \in WebNames |-> NoObj]
    /\ pages = [p \in PageIds |-> NoObj]
    /\ Data = [s \in WebNames |-> Nil]
    /\ webQueue = { s \in WebNames : webservers[s].exists }
    /\ call = NoCall
    /\ nUser = 0
    /\ nFault = 0
    /\ AllIdle

\* 1 for a call in which some backend call failed, else 0.
Faulty(c) == IF c.nf > 0 THEN 1 ELSE 0

\* The world after a reconcile call with outcome c.
Commit(c, ctrl, name) ==
    /\ nFault + Faulty(c) <= MaxFaults
    /\ webservers' = c.w.webservers
    /\ deployments' = c.w.deployments
    /\ configMaps' = c.w.configMaps
    /\ services' = c.w.services
    /\ ingresses' = c.w.ingresses
    /\ pages' = c.w.pages
    /\ Data' = c.w.Data
    /\ webQueue' = c.w.webQueue
    /\ call' = [ctrl |-> ctrl, name |-> name, err |-> c.err, ops |-> c.ops]
    /\ nFault' = nFault + Faulty(c)
    /\ UNCHANGED <<nUser, mu, worker>>

\* A call that returns an error is queued again by the controller.
Requeue(c, s) == IF c.err # NoErr THEN Enqueue(c, s) ELSE c

\* The WebServer controller delivers a reconcile call for s.
ReconcileWebServer(s) ==
    \E c \in WebReconcile([World EXCEPT !.webQueue = @ \ {s}], s) :
        Commit(Requeue(c, s), "webserver", s)

\* The same, in an environment where the backend serves this controller without failure.
ReconcileWebServerOK(s) ==
    \E c \in WebReconcile([World EXCEPT !.webQueue = @ \ {s}], s) :
        c.nf = 0 /\ Commit(Requeue(c, s), "webserver", s)

\* The Page controller delivers a reconcile call for p.
ReconcilePage(p) ==
    \E c \in PageReconcile(World, p) : Commit(c, "page", p)

\* The same, in an environment where the backend serves this controller without failure.
ReconcilePageOK(p) ==
    \E c \in PageReconcile(World, p) : c.nf = 0 /\ Commit(c, "page", p)

\* What a user operation leaves alone.
UserOp ==
    /\ nUser < MaxUserOps
    /\ nUser' = nUser + 1
    /\ call' = NoCall
    /\ UNCHANGED <<Data, nFault, mu, worker>>

CreateWebServer(s, image, replicas) ==
    /\ ~webservers[s].exists
    /\ webservers' = [webservers EXCEPT ![s] = NewWebServer(image, replicas)]
    /\ webQueue' = webQueue \cup {s}
    /\ UserOp
    /\ UNCHANGED <<deployments, configMaps, services, ingresses, pages>>

\* A user changes the spec: the generation grows and the update passes the filter.
EditWebServer(s, image, replicas) ==
    LET old == webservers[s]
        new == [old EXCEPT !.image = image, !.replicas = replicas]
        stored == [new EXCEPT !.generation = NextGeneration(old, new)]
    IN  /\ old.exists
        /\ new # old
        /\ webservers' = [webservers EXCEPT ![s] = stored]
        /\ webQueue' = IF webServerEventFilter(old, stored) THEN webQueue \cup {s} ELSE webQueue
        /\ UserOp
        /\ UNCHANGED <<deployments, configMaps, services, ingresses, pages>>

\* A user deletes the WebServer; the garbage collector removes what it owns.
DeleteWebServer(s) ==
    LET Keep(store) == [n \in DOMAIN store |->
                          IF store[n].exists /\ store[n].owner = s THEN NoObj ELSE store[n]]
    IN  /\ webservers[s].exists
        /\ webservers' = [webservers EXCEPT ![s] = NoObj]
        /\ deployments' = Keep(deployments)
        /\ configMaps' = Keep(configMaps)
        /\ services' = Keep(services)
        /\ ingresses' = Keep(ingresses)
        /\ webQueue' = webQueue \cup {s}
        /\ UserOp
        /\ UNCHANGED pages

\* Something outside the operator rewrites the pod template of the Deployment.
TamperDeployment(s, containers) ==
    /\ deployments[s].exists
    /\ deployments[s].containers # containers
    /\ deployments' = [deployments EXCEPT ![s].containers = containers]
    /\ webQueue' = webQueue \cup {s}
    /\ UserOp
    /\ UNCHANGED <<webservers, configMaps, services, ingresses, pages>>

CreatePage(p, name, contents, s) ==
    /\ ~pages[p].exists
    /\ pages' = [pages EXCEPT ![p] = NewPage(name, contents, s)]
    /\ UserOp
    /\ UNCHANGED <<webservers, deployments, configMaps, services, ingresses, webQueue>>

EditPage(p, name, contents, s) ==
    LET new == [pages[p] EXCEPT !.name = name, !.contents = contents, !.webserver = s]
    IN  /\ pages[p].exists
        /\ ~pages[p].deleting
        /\ new # pages[p]
        /\ pages' = [pages EXCEPT ![p] = new]
        /\ UserOp
        /\ UNCHANGED <<webservers, deployments, configMaps, services, ingresses, webQueue>>

\* A user deletes the page: it is marked for deletion while it has the
\* finalizer, and gone at once when it has none.
DeletePage(p) ==
    /\ pages[p].exists
    /\ ~pages[p].deleting
    /\ pages' = [pages EXCEPT ![p] = IF @.finalizer THEN [@ EXCEPT !.deleting = TRUE] ELSE NoObj]
    /\ UserOp
    /\ UNCHANGED <<webservers, deployments, configMaps, services, ingresses, webQueue>>

\* The operator process is restarted: main builds a new, empty cache.
Restart ==
    /\ Data' = [s \in WebNames |-> Nil]
    /\ Data' # Data
    /\ nUser < MaxUserOps
    /\ nUser' = nUser + 1
    /\ call' = NoCall
    /\ webQueue' = { s \in WebNames : webservers[s].exists }
    /\ UNCHANGED <<webservers, deployments, configMaps, services, ingresses, pages, nFault,
                   mu, worker>>

\* Something outside the operator rewrites a ConfigMap, the Service or the
\* Ingress of a WebServer; the owner's controller is told.
TamperConfigMap(s, name, data) ==
    /\ configMaps[name].exists
    /\ configMaps[name].binaryData # data
    /\ configMaps' = [configMaps EXCEPT ![name].binaryData = data]
    /\ webQueue' = webQueue \cup {s}
    /\ UserOp
    /\ UNCHANGED <<webservers, deployments, services, ingresses, pages>>

TamperService(s, port) ==
    /\ services[s].exists
    /\ services[s].port # port
    /\ services' = [services EXCEPT ![s].port = port]
    /\ webQueue' = webQueue \cup {s}
    /\ UserOp
    /\ UNCHANGED <<webservers, deployments, configMaps, ingresses, pages>>

TamperIngress(s, backend) ==
    /\ ingresses[s].exists
    /\ ingresses[s].backend # backend
    /\ ingresses' = [ingresses EXCEPT ![s].backend = backend]
    /\ webQueue' = webQueue \cup {s}
    /\ UserOp
    /\ UNCHANGED <<webservers, deployments, configMaps, services, pages>>

TamperedData == { Nil, Some([k \in {fileConfig} |-> <<9>>]) }
TamperedPorts == { 80, 8080 }
TamperedBackends == { "s1", "elsewhere" }

Tampered == { <<>>, <<DefaultImage, DefaultImage>> }

(* Spec: the operator with one WebServer "s1" and one Page "p1" in the hands *)
(* of the users; "s2" is a name pages may refer to that no WebServer has.    *)
Init == InitWith({"s1"})

Next ==
    \/ \E s \in WebNames : ReconcileWebServer(s)
    \/ \E p \in {"p1"} : ReconcilePage(p)
    \/ \E i \in Images, r \in ReplicaCounts : CreateWebServer("s1", i, r)
    \/ \E i \in Images, r \in ReplicaCounts : EditWebServer("s1", i, r)
    \/ DeleteWebServer("s1")
    \/ \E k \in Tampered : TamperDeployment("s1", k)
    \/ \E n \in PageNames, t \in PageContents, s \in WebNames : CreatePage("p1", n, t, s)
    \/ \E n \in PageNames, t \in PageContents, s \in WebNames : EditPage("p1", n, t, s)
    \/ DeletePage("p1")
    \/ Restart

Spec == Init /\ [][Next]_vars

----------------------------------------------------------------------------
(* Reading the state and the record of the last call *)

HasOp(c, verb, kind, name, res) ==
    \E i \in 1..Len(c.ops) : c.ops[i] = Op(verb, kind, name, res)

\* No backend call of the call failed.
FaultFree(c) == \A i \in 1..Len(c.ops) : c.ops[i].res # "error"

IsChildWrite(o) == o.verb \in {"Create", "Update", "Delete"} /\ o.kind # "WebServer" /\ o.kind # "Page"

\* The creates, updates and deletes of child objects the call issued, in order.
ChildWrites(c) == SelectSeq(c.ops, IsChildWrite)

WebCall(c, s) == c.ctrl = "webserver" /\ c.name = s
PageCall(c, p) == c.ctrl = "page" /\ c.name = p

AvailableIs(web, status) ==
    \E i \in 1..Len(web.conditions) :
        web.conditions[i].type = typeAvailableWeb /\ web.conditions[i].status = status

NoChildren(s) ==
    /\ ~deployments[s].exists
    /\ ~configMaps[ConfigCMName(s)].exists
    /\ ~configMaps[DataCMName(s)].exists
    /\ ~services[s].exists
    /\ ~ingresses[s].exists

AllChildren(s) ==
    /\ deployments[s].exists
    /\ configMaps[ConfigCMName(s)].exists
    /\ configMaps[DataCMName(s)].exists
    /\ services[s].exists
    /\ ingresses[s].exists

FiveCreates(s) ==
    << Op("Create", "Deployment", s, "ok"),
       Op("Create", "ConfigMap", ConfigCMName(s), "ok"),
       Op("Create", "ConfigMap", DataCMName(s), "ok"),
       Op("Create", "Service", s, "ok"),
       Op("Create", "Ingress", s, "ok") >>

\* The key/value pairs of a map; none for a nil map.
KV(data) == IF IsNil(data) THEN {} ELSE { <<k, Val(data)[k]>> : k \in DOMAIN Val(data) }

----------------------------------------------------------------------------
(* C1: a fault-free reconcile call for a WebServer that exists and has none *)
(* of its children creates the Deployment <s>, the ConfigMaps <s>-config    *)
(* and <s>-data, the Service <s> and the Ingress <s>, each owned by the     *)
(* WebServer, writes no other child, and leaves Available=True.             *)
C1_FreshSiteGetsFiveChildren ==
    [][\A s \in WebNames :
          (/\ WebCall(call', s) /\ FaultFree(call')
           /\ webservers[s].exists /\ NoChildren(s))
          => /\ ChildWrites(call') = FiveCreates(s)
             /\ AllChildren(s)'
             /\ deployments'[s].owner = s
             /\ configMaps'[ConfigCMName(s)].owner = s
             /\ configMaps'[DataCMName(s)].owner = s
             /\ services'[s].owner = s
             /\ ingresses'[s].owner = s
             /\ \A t \in WebNames \ {s} :
                   /\ deployments'[t] = deployments[t]
                   /\ services'[t] = services[t]
                   /\ ingresses'[t] = ingresses[t]
                   /\ configMaps'[ConfigCMName(t)] = configMaps[ConfigCMName(t)]
                   /\ configMaps'[DataCMName(t)] = configMaps[DataCMName(t)]
             /\ AvailableIs(webservers'[s], "True")
             /\ call'.err = NoErr]_vars

C1_Witness ==
    /\ WebCall(call, "s1") /\ FaultFree(call) /\ call.err = NoErr
    /\ ChildWrites(call) = FiveCreates("s1")
    /\ AllChildren("s1")
    /\ AvailableIs(webservers["s1"], "True")

----------------------------------------------------------------------------
\* The call for page p removes the finalizer of p, which is marked for
\* deletion: the page is gone after the call.
RemovesFinalizer(p) ==
    /\ PageCall(call', p)
    /\ pages[p].exists /\ pages[p].deleting /\ pages[p].finalizer
    /\ ~pages'[p].exists

\* The cached data of s has no entry that stems from page p.
NoEntryOf(p, s, data, live) ==
    \/ IsNil(data)
    \/ pages[p].name \notin DOMAIN Val(data)
    \/ \E q \in PageIds \ {p} :
          /\ live[q].exists /\ ~live[q].deleting
          /\ live[q].webserver = s /\ live[q].name = pages[p].name

(* C2: the finalizer of a page marked for deletion is removed only in a call *)
(* whose recomputation of the page data succeeded, so that the cached data   *)
(* has no entry of the page when the finalizer goes; also when the listing   *)
(* of the pages in prepareData fails.                                        *)
C2_FinalizerRemovedAfterRecompute ==
    [][\A p \in PageIds :
          RemovesFinalizer(p)
          => /\ HasOp(call', "List", "Page", pages[p].webserver, "ok")
             /\ NoEntryOf(p, pages[p].webserver, Data'[pages[p].webserver], pages')]_vars

(* C3: the finalizer of a deleted page that contributed to the page data is  *)
(* cleared only after the cached data was recomputed without the page and    *)
(* the "pages" annotation of the WebServer holds the hash of that data; here *)
(* for the retry that follows an attempt in which the data was recomputed    *)
(* and the update of the WebServer failed.                                   *)
C3_FinalizerRemovedAfterHashPersisted ==
    [][\A p \in PageIds :
          (/\ RemovesFinalizer(p)
           /\ PageCall(call, p)
           /\ HasOp(call, "SetData", "Data", pages[p].webserver, "ok")
           /\ HasOp(call, "Update", "WebServer", pages[p].webserver, "error"))
          => LET s == pages[p].webserver
             IN  /\ NoEntryOf(p, s, Data'[s], pages')
                 /\ ~IsNil(Data'[s])
                 /\ webservers'[s].pagesAnnotation = Some(makeHash(Val(Data'[s])))]_vars

(* C4: a page call that finds the recomputed data different from the cached *)
(* data stores it in the cache, writes its hash into the annotation "pages", *)
(* sets the condition UpToDate of the WebServer to False and persists the    *)
(* WebServer; when persisting fails, the call returns an error.              *)
C4_ChangedDataIsSignalled ==
    \A p \in PageIds, s \in WebNames :
        (PageCall(call, p) /\ HasOp(call, "SetData", "Data", s, "ok"))
        => /\ ~IsNil(Data[s])
           /\ \/ /\ HasOp(call, "Update", "WebServer", s, "ok")
                 /\ webservers[s].pagesAnnotation = Some(makeHash(Val(Data[s])))
                 /\ \E i \in 1..Len(webservers[s].conditions) :
                       /\ webservers[s].conditions[i].type = "UpToDate"
                       /\ webservers[s].conditions[i].status = "False"
              \/ /\ HasOp(call, "Update", "WebServer", s, "error")
                 /\ call.err # NoErr

(* C5: when the cache holds page data A for a WebServer, a reconcile call of *)
(* the WebServer that returns success leaves the ConfigMap <s>-data with the *)
(* key/value pairs of A, whatever it held before.                            *)
C5_DataConfigMapFollowsCache ==
    \A s \in WebNames :
        (/\ WebCall(call, s) /\ call.err = NoErr
         /\ webservers[s].exists /\ ~IsNil(Data[s]))
        => /\ configMaps[DataCMName(s)].exists
           /\ KV(configMaps[DataCMName(s)].binaryData) = KV(Data[s])

C5_Witness ==
    /\ WebCall(call, "s1") /\ call.err = NoErr
    /\ webservers["s1"].exists
    /\ KV(Data["s1"]) # {}
    /\ HasOp(call, "Update", "ConfigMap", DataCMName("s1"), "ok")
    /\ KV(configMaps[DataCMName("s1")].binaryData) = KV(Data["s1"])

(* C6: the update of the WebServer that a page call persists (a new "pages"  *)
(* annotation, the spec unchanged) passes the event filter of the WebServer  *)
(* controller, so that a reconcile request for the WebServer is queued.      *)
C6_HashUpdateTriggersReconcile ==
    \A p \in PageIds, s \in WebNames :
        (PageCall(call, p) /\ HasOp(call, "Update", "WebServer", s, "ok"))
        => s \in webQueue

----------------------------------------------------------------------------
(* SpecSites: two WebServers "s1" and "s2" that stay, one Page "p1" in the   *)
(* hands of the users, and a backend that fails no call.                     *)
InitSites ==
    /\ InitWith(WebNames)
    /\ \A s \in WebNames : webservers[s].exists

NextSites ==
    \/ \E s \in WebNames : ReconcileWebServerOK(s)
    \/ ReconcilePageOK("p1")
    \/ \E n \in PageNames, t \in PageContents, s \in WebNames : CreatePage("p1", n, t, s)
    \/ \E n \in PageNames, t \in PageContents, s \in WebNames : EditPage("p1", n, t, s)
    \/ DeletePage("p1")

SpecSites == InitSites /\ [][NextSites]_vars

\* The objects and the cache of world w are those of the current state.
SameObjects(w) ==
    /\ w.webservers = webservers
    /\ w.deployments = deployments
    /\ w.configMaps = configMaps
    /\ w.services = services
    /\ w.ingresses = ingresses
    /\ w.pages = pages
    /\ w.Data = Data

\* No reconcile call that the backend serves without failure changes
\* anything or returns an error: with the users idle, the state stays.
Quiescent ==
    /\ \A s \in WebNames :
          \A c \in WebReconcile([World EXCEPT !.webQueue = @ \ {s}], s) :
              c.nf = 0 => (c.err = NoErr /\ SameObjects(c.w))
    /\ \A p \in PageIds :
          \A c \in PageReconcile(World, p) :
              c.nf = 0 => (c.err = NoErr /\ SameObjects(c.w))

\* The name/contents pairs of the live pages that refer to WebServer s.
LiveData(s) ==
    { <<pages[p].name, pages[p].contents>> :
        p \in { q \in PageIds : /\ pages[q].exists /\ ~pages[q].deleting
                                /\ pages[q].webserver = s } }

Converged ==
    \A s \in WebNames :
        webservers[s].exists
        => /\ KV(Data[s]) = LiveData(s)
           /\ configMaps[DataCMName(s)].exists
           /\ KV(configMaps[DataCMName(s)].binaryData) = KV(Data[s])

(* C7: once the users are idle and no backend call fails, redelivered        *)
(* reconcile calls bring the system to a state, and keep it there, in which  *)
(* the cached data of every WebServer is the name-to-contents map of the     *)
(* live pages that refer to it and the ConfigMap <s>-data equals it.  Hence  *)
(* a state that no such call changes any more is such a state.               *)
C7_QuiescentIsConverged == Quiescent => Converged

IsDeploymentWrite(o) == IsChildWrite(o) /\ o.kind = "Deployment"

(* C8: for a WebServer with all five children, whose Deployment has one      *)
(* container and another image or replica count than the spec, a fault-free  *)
(* reconcile call issues exactly one Update of the Deployment, which sets    *)
(* image and replicas to the spec, no Create or Delete of it, no write of    *)
(* the ConfigMap <s>-config, the Service or the Ingress, and none of the     *)
(* ConfigMap <s>-data when DataDiffer finds it equal to the cached data.     *)
C8_DriftedDeploymentIsUpdatedInPlace ==
    [][\A s \in WebNames :
          (/\ WebCall(call', s) /\ FaultFree(call')
           /\ webservers[s].exists /\ AllChildren(s)
           /\ Len(deployments[s].containers) = 1
           /\ \/ deployments[s].containers[1] # webservers[s].image
              \/ deployments[s].replicas # webservers[s].replicas)
          => /\ SelectSeq(call'.ops, IsDeploymentWrite) = << Op("Update", "Deployment", s, "ok") >>
             /\ deployments'[s].exists
             /\ deployments'[s].containers = << webservers[s].image >>
             /\ deployments'[s].replicas = webservers[s].replicas
             /\ \A i \in 1..Len(call'.ops) :
                   IsChildWrite(call'.ops[i])
                   => /\ call'.ops[i].kind \notin {"Service", "Ingress"}
                      /\ call'.ops[i].name # ConfigCMName(s)
                      /\ ~DataDiffer(configMaps[DataCMName(s)].binaryData, Data[s])
                            => call'.ops[i].name # DataCMName(s)
             /\ configMaps'[ConfigCMName(s)] = configMaps[ConfigCMName(s)]
             /\ services' = services
             /\ ingresses' = ingresses]_vars

C8_Witness ==
    /\ WebCall(call, "s1") /\ FaultFree(call)
    /\ ChildWrites(call) = << Op("Update", "Deployment", "s1", "ok") >>
    /\ AllChildren("s1")
    /\ deployments["s1"].containers = << webservers["s1"].image >>
    /\ deployments["s1"].replicas = webservers["s1"].replicas

\* The call for WebServer s finds its Deployment with another number of
\* containers than one.
FindsBadContainers(s) ==
    /\ WebCall(call', s)
    /\ webservers[s].exists
    /\ deployments[s].exists /\ Len(deployments[s].containers) # 1
    /\ HasOp(call', "Get", "Deployment", s, "ok")

FreshDeployment(s) ==
    [exists |-> TRUE, containers |-> << webservers[s].image >>,
     replicas |-> webservers[s].replicas, owner |-> s]

(* C9 as the code has it: a reconcile call that finds the Deployment with    *)
(* another number of containers than one issues a Delete of it (a failure of *)
(* which is only logged), no Update, runs no later step and returns an       *)
(* error; when the Delete succeeded the Deployment is gone, and a fault-free *)
(* call that finds no Deployment creates it with one container, image and    *)
(* replicas as in the spec.                                                  *)
C9_BadDeploymentIsDeletedThenRecreated ==
    [][\A s \in WebNames :
          /\ FindsBadContainers(s)
             => /\ \E res \in {"ok", "error"} :
                      ChildWrites(call') = << Op("Delete", "Deployment", s, res) >>
                /\ \A i \in 1..Len(call'.ops) :
                      call'.ops[i].kind \notin {"ConfigMap", "Service", "Ingress"}
                /\ call'.err # NoErr
                /\ HasOp(call', "Delete", "Deployment", s, "ok") => ~deployments'[s].exists
          /\ (/\ WebCall(call', s) /\ FaultFree(call')
              /\ webservers[s].exists /\ ~deployments[s].exists)
             => /\ HasOp(call', "Create", "Deployment", s, "ok")
                /\ deployments'[s] = FreshDeployment(s)]_vars

C9_Witness ==
    /\ WebCall(call, "s1")
    /\ ChildWrites(call) = << Op("Delete", "Deployment", "s1", "ok") >>
    /\ call.err = ErrContainers
    /\ webservers["s1"].exists
    /\ ~deployments["s1"].exists

(* C9 as stated: a reconcile call that finds the Deployment with another     *)
(* number of containers than one deletes it, does not update it, runs no     *)
(* later step and returns an error, and the next call for the WebServer,     *)
(* fault-free, creates the Deployment anew with one container, image and     *)
(* replicas as in the spec.                                                  *)
C9_NextCallRecreates ==
    [][\A s \in WebNames :
          /\ FindsBadContainers(s)
             => /\ ~deployments'[s].exists
                /\ ~HasOp(call', "Update", "Deployment", s, "ok")
                /\ call'.err # NoErr
          /\ (/\ WebCall(call, s)
              /\ \E res \in {"ok", "error"} : HasOp(call, "Delete", "Deployment", s, res)
              /\ WebCall(call', s) /\ FaultFree(call')
              /\ webservers[s].exists)
             => /\ HasOp(call', "Create", "Deployment", s, "ok")
                /\ deployments'[s] = FreshDeployment(s)]_vars

(* C10: when a step of the WebServer reconcile fails, no later step runs,    *)
(* the call returns an error, and Available is set to False with a message   *)
(* that identifies the failing step: the message the step reports for its    *)
(* failure (here: whenever the write of the status succeeds).                *)
C10_FailedStepIsReported ==
    \A s \in WebNames :
        \A i \in 1..Len(call.ops) :
            (WebCall(call, s) /\ call.ops[i].verb = "log.Error")
            => /\ call.err # NoErr
               /\ \A j \in (i + 1)..Len(call.ops) : call.ops[j].kind = "WebServer"
               /\ (\E j \in (i + 1)..Len(call.ops) :
                      call.ops[j] = Op("StatusUpdate", "WebServer", s, "ok"))
                  => \E k \in 1..Len(webservers[s].conditions) :
                        /\ webservers[s].conditions[k].type = typeAvailableWeb
                        /\ webservers[s].conditions[k].status = "False"
                        /\ webservers[s].conditions[k].message = call.ops[i].name

----------------------------------------------------------------------------
\* A fetch, list, create or update of the call failed (not-found is no failure).
BackendFailure(c) ==
    \E i \in 1..Len(c.ops) :
        /\ c.ops[i].res = "error"
        /\ c.ops[i].verb \in {"Get", "List", "Create", "Update", "StatusUpdate"}

(* C11: a reconcile call of either controller in which a fetch, list, create *)
(* or update fails (other than with not-found) returns an error; so does a   *)
(* page call in which the listing of the pages fails.                        *)
C11_BackendFailureIsReturned ==
    (call.ctrl \in {"webserver", "page"} /\ BackendFailure(call)) => call.err # NoErr

\* The call did not find its primary object.
PrimaryNotFound(c) ==
    /\ Len(c.ops) > 0
    /\ \/ c.ctrl = "webserver" /\ c.ops[1] = Op("Get", "WebServer", c.name, "notfound")
       \/ c.ctrl = "page" /\ c.ops[1] = Op("Get", "Page", c.name, "notfound")

(* C12: a reconcile call that does not find its primary object (the          *)
(* WebServer, respectively the Page) returns success and writes nothing: it  *)
(* issues no other backend call, and children, WebServers, pages and cache   *)
(* are as before.                                                            *)
C12_NotFoundPrimaryIsSuccess ==
    [][PrimaryNotFound(call')
       => /\ call'.err = NoErr
          /\ Len(call'.ops) = 1
          /\ UNCHANGED <<webservers, deployments, configMaps, services, ingresses, pages, Data>>]_vars

C12_Witness ==
    /\ PrimaryNotFound(call)
    /\ call.ctrl = "webserver"
    /\ call.err = NoErr
    /\ nUser > 0

\* The error a step returns for its failed backend call o.
StepError(o) == IF o.verb = "Delete" THEN ErrContainers ELSE Err(o.verb, o.kind)

\* Step failure reported at position i of the call, and the write of the
\* status that follows (Status().Update or the re-fetch) failed as well.
StatusWriteFailedAfter(c, i) ==
    /\ i > 1 /\ i <= Len(c.ops)
    /\ c.ops[i].verb = "log.Error"
    /\ \E j \in (i + 1)..Len(c.ops) : c.ops[j].kind = "WebServer" /\ c.ops[j].res = "error"

(* C13: when a step of the WebServer reconcile fails with error E and the    *)
(* write of Available=False (status update or re-fetch) then fails with E',  *)
(* the call returns E, not E' and not success.                               *)
C13_OriginalErrorIsReturned ==
    \A s \in WebNames :
        \A i \in 1..Len(call.ops) :
            (WebCall(call, s) /\ StatusWriteFailedAfter(call, i))
            => /\ call.err = StepError(call.ops[i - 1])
               /\ call.err \notin {NoErr, Err("StatusUpdate", "WebServer"), Err("Get", "WebServer")}

C13_Witness ==
    /\ WebCall(call, "s1")
    /\ \E i \in 1..Len(call.ops) :
          /\ StatusWriteFailedAfter(call, i)
          /\ call.ops[i - 1] = Op("Create", "Service", "s1", "error")
    /\ HasOp(call, "StatusUpdate", "WebServer", "s1", "error")
    /\ call.err = Err("Create", "Service")

\* Every Status().Update and every fetch of the WebServer in the call succeeded.
StatusWritesOK(c) ==
    \A i \in 1..Len(c.ops) : c.ops[i].kind = "WebServer" => c.ops[i].res = "ok"

(* C14 as the code has it: at the end of a WebServer reconcile call in which *)
(* every status update and every fetch of the WebServer succeeded, Available *)
(* is True when the call returned success and False when it failed (in one   *)
(* of its steps); so a successful call after a failed one sets it back to    *)
(* True.  A failed status write leaves the condition as it was.              *)
C14_AvailableFollowsOutcome ==
    [][\A s \in WebNames :
          (WebCall(call', s) /\ webservers[s].exists)
          => /\ StatusWritesOK(call')
                => /\ call'.err = NoErr
                      => /\ AvailableIs(webservers'[s], "True")
                         /\ ~AvailableIs(webservers'[s], "False")
                         /\ ~AvailableIs(webservers'[s], "Unknown")
                   /\ call'.err # NoErr
                      => /\ AvailableIs(webservers'[s], "False")
                         /\ ~AvailableIs(webservers'[s], "True")
                         /\ ~AvailableIs(webservers'[s], "Unknown")
             /\ ~HasOp(call', "StatusUpdate", "WebServer", s, "ok")
                => webservers'[s].conditions = webservers[s].conditions]_vars

\* A call for a WebServer with all its children failed in a step and left Available=False.
C14_Witness ==
    /\ WebCall(call, "s1") /\ call.err = Err("Get", "Service")
    /\ StatusWritesOK(call)
    /\ webservers["s1"].exists
    /\ AllChildren("s1")
    /\ AvailableIs(webservers["s1"], "False")
    /\ ~AvailableIs(webservers["s1"], "True")

(* C14 as stated: at the end of every WebServer reconcile call, Available is *)
(* True if and only if the call returned success (True after a success,      *)
(* False after a failure in a step).                                         *)
C14_AvailableIffSuccess ==
    \A s \in WebNames :
        (WebCall(call, s) /\ webservers[s].exists)
        => (AvailableIs(webservers[s], "True") <=> call.err = NoErr)

----------------------------------------------------------------------------
(* SpecData: DataDiffer and makeHash applied to the page data of two cache   *)
(* entries, which range over the absent map and all maps with keys from      *)
(* DataKeys and values from DataValues.                                      *)
DataKeys == { <<1>>, <<1, 2>> }
DataValues == { <<>>, <<2>>, <<3>> }

PageDatas == {Nil} \cup { Some(m) : m \in UNION { [K -> DataValues] : K \in SUBSET DataKeys } }

InitData ==
    /\ webservers = [s \in WebNames |-> NoObj]
    /\ deployments = [s \in WebNames |-> NoObj]
    /\ configMaps = [n \in CMNames |-> NoObj]
    /\ services = [s \in WebNames |-> NoObj]
    /\ ingresses = [s \in WebNames |-> NoObj]
    /\ pages = [p \in PageIds |-> NoObj]
    /\ Data \in [WebNames -> PageDatas]
    /\ webQueue = {}
    /\ call = NoCall
    /\ nUser = 0
    /\ nFault = 0
    /\ AllIdle

\* r.DataDiffer(oldData, newData) for the two entries, both ways and on itself.
CallDataDiffer ==
    /\ call = NoCall
    /\ call' = [ctrl |-> "DataDiffer", name |-> "", err |-> NoErr,
                ops |-> << [differ |-> DataDiffer(Data["s1"], Data["s2"]),
                            reverse |-> DataDiffer(Data["s2"], Data["s1"]),
                            self |-> DataDiffer(Data["s1"], Data["s1"])] >>]
    /\ UNCHANGED <<webservers, deployments, configMaps, services, ingresses, pages,
                   Data, webQueue, nUser, nFault, mu, worker>>

\* makeHash(log, data) for the entries that are present.
CallMakeHash ==
    /\ call = NoCall
    /\ ~IsNil(Data["s1"]) /\ ~IsNil(Data["s2"])
    /\ call' = [ctrl |-> "makeHash", name |-> "", err |-> NoErr,
                ops |-> << [fed |-> HashInput(Val(Data["s1"]), SortStrings(DOMAIN Val(Data["s1"]))),
                            digest |-> makeHash(Val(Data["s1"])),
                            other |-> makeHash(Val(Data["s2"]))] >>]
    /\ UNCHANGED <<webservers, deployments, configMaps, services, ingresses, pages,
                   Data, webQueue, nUser, nFault, mu, worker>>

NextData == CallDataDiffer \/ CallMakeHash

SpecData == InitData /\ [][NextData]_vars

\* The rule of the cache for "old and new differ", as the claim words it.
Differing(old, new) ==
    IF IsNil(old) /\ IsNil(new) THEN FALSE
    ELSE IF IsNil(old) # IsNil(new) THEN TRUE
    ELSE LET o == Val(old)
             n == Val(new)
         IN  \/ Cardinality(DOMAIN o) # Cardinality(DOMAIN n)
             \/ (DOMAIN o) \ (DOMAIN n) # {}
             \/ (DOMAIN n) \ (DOMAIN o) # {}
             \/ \E k \in (DOMAIN o) \cap (DOMAIN n) : o[k] # n[k]

(* C15: DataDiffer(old, new) is false when both are absent, true when        *)
(* exactly one is absent, and for two present maps true if and only if the   *)
(* numbers of keys differ, or a key of one is missing in the other, or a     *)
(* shared key has different value bytes.                                     *)
C15_DataDifferRule ==
    call.ctrl = "DataDiffer" => call.ops[1].differ = Differing(Data["s1"], Data["s2"])

C15_Witness ==
    /\ call.ctrl = "DataDiffer"
    /\ ~IsNil(Data["s1"]) /\ ~IsNil(Data["s2"])
    /\ DOMAIN Val(Data["s1"]) = DataKeys
    /\ DOMAIN Val(Data["s2"]) = DataKeys
    /\ call.ops[1].differ = TRUE

(* C16: DataDiffer(A, A) is false for every A (absent, empty or not empty),  *)
(* DataDiffer(A, B) = DataDiffer(B, A) for all A and B, and                  *)
(* DataDiffer(absent, empty but present) is true.                            *)
C16_DataDifferReflexiveSymmetric ==
    call.ctrl = "DataDiffer"
    => /\ call.ops[1].self = FALSE
       /\ call.ops[1].differ = call.ops[1].reverse
       /\ (IsNil(Data["s1"]) /\ Data["s2"] = Some(EmptyMap)) => call.ops[1].differ = TRUE

C16_Witness ==
    /\ call.ctrl = "DataDiffer"
    /\ IsNil(Data["s1"]) /\ Data["s2"] = Some(EmptyMap)
    /\ call.ops[1].differ = TRUE /\ call.ops[1].reverse = TRUE /\ call.ops[1].self = FALSE

\* Bytewise ascending order: a proper prefix first, else the smaller byte at
\* the first position where the two differ.
BytesLess(a, b) ==
    \/ Len(a) < Len(b) /\ \A i \in 1..Len(a) : a[i] = b[i]
    \/ \E i \in 1..Len(a) :
          /\ i <= Len(b) /\ a[i] < b[i]
          /\ \A j \in 1..(i - 1) : a[j] = b[j]

\* Each key of ks, from position i on, followed by its value bytes.
RECURSIVE KeyValueBytes(_, _, _)
KeyValueBytes(data, ks, i) ==
    IF i > Len(ks) THEN <<>>
    ELSE ks[i] \o data[ks[i]] \o KeyValueBytes(data, ks, i + 1)

\* The map that results from inserting the entries of data in the order ks.
RECURSIVE InsertedInOrder(_, _, _)
InsertedInOrder(data, ks, i) ==
    IF i = 0 THEN EmptyMap
    ELSE Put(InsertedInOrder(data, ks, i - 1), ks[i], data[ks[i]])

\* a and b have the same keys and value lengths and differ in one byte of one value.
OneByteApart(a, b) ==
    /\ DOMAIN a = DOMAIN b
    /\ \A k \in DOMAIN a : Len(a[k]) = Len(b[k])
    /\ \E k \in DOMAIN a :
          /\ \A x \in DOMAIN a \ {k} : a[x] = b[x]
          /\ \E i \in 1..Len(a[k]) :
                /\ a[k][i] # b[k][i]
                /\ \A j \in 1..Len(a[k]) \ {i} : a[k][j] = b[k][j]

(* C17: the bytes makeHash feeds into the digest are the keys in ascending   *)
(* order, each followed by its value bytes; maps with the same entries       *)
(* inserted in different orders have the same digest; and a map that differs *)
(* in a single byte of one value (keys and lengths the same) has another     *)
(* digest.                                                                   *)
C17_MakeHashDeterministic ==
    call.ctrl = "makeHash"
    => LET a == Val(Data["s1"])
           b == Val(Data["s2"])
       IN  /\ \E ks \in Orders(DOMAIN a) :
                 /\ \A i, j \in 1..Len(ks) : i < j => BytesLess(ks[i], ks[j])
                 /\ call.ops[1].fed = KeyValueBytes(a, ks, 1)
           /\ \A ks \in Orders(DOMAIN a) :
                 makeHash(InsertedInOrder(a, ks, Len(ks))) = call.ops[1].digest
           /\ OneByteApart(a, b) => call.ops[1].digest # call.ops[1].other

C17_Witness ==
    /\ call.ctrl = "makeHash"
    /\ DOMAIN Val(Data["s1"]) = DataKeys
    /\ OneByteApart(Val(Data["s1"]), Val(Data["s2"]))
    /\ call.ops[1].digest # call.ops[1].other
    /\ call.ops[1].fed = <<1>> \o Val(Data["s1"])[<<1>>] \o <<1, 2>> \o Val(Data["s1"])[<<1, 2>>]

----------------------------------------------------------------------------
\* The step is a fault-free reconcile call of the given controller for the
\* same object as the call right before it, which was fault-free and
\* returned success; nothing happened in between.
RunsAgain(ctrl, name) ==
    /\ call.ctrl = ctrl /\ call.name = name
    /\ call.err = NoErr /\ FaultFree(call)
    /\ call'.ctrl = ctrl /\ call'.name = name
    /\ FaultFree(call')

(* C18: a reconcile call run a second time directly after a successful first *)
(* run, with nothing changed in between, leaves children, cache, WebServer   *)
(* annotation and page finalizers as they are, and issues no create, update  *)
(* or delete of a child and no update of the WebServer from the page         *)
(* reconciler.                                                               *)
C18_ReconcileIsIdempotent ==
    [][/\ \A s \in WebNames :
             RunsAgain("webserver", s)
             => /\ ChildWrites(call') = <<>>
                /\ UNCHANGED <<webservers, deployments, configMaps, services, ingresses,
                               pages, Data>>
       /\ \A p \in PageIds :
             RunsAgain("page", p)
             => /\ ChildWrites(call') = <<>>
                /\ \A s \in WebNames : ~HasOp(call', "Update", "WebServer", s, "ok")
                /\ UNCHANGED <<webservers, deployments, configMaps, services, ingresses,
                               pages, Data>>]_vars

\* The number of entries of the given type in a condition list.
EntriesOfType(conds, type) == Cardinality({ i \in 1..Len(conds) : conds[i].type = type })

(* C19: in every reachable state the condition list of a WebServer has at    *)
(* most one entry per type (one Available, one UpToDate at most), however    *)
(* the calls of the two reconcilers interleave.                              *)
C19_OneConditionPerType ==
    \A s \in WebNames :
        webservers[s].exists
        => \A type \in {typeAvailableWeb, "UpToDate"} :
              EntriesOfType(webservers[s].conditions, type) <= 1

\* A page call updated the WebServer after the WebServer controller had set
\* Available more than once.
C19_Witness ==
    /\ PageCall(call, "p1")
    /\ HasOp(call, "Update", "WebServer", "s1", "ok")
    /\ webservers["s1"].exists
    /\ EntriesOfType(webservers["s1"].conditions, typeAvailableWeb) = 1
    /\ AvailableIs(webservers["s1"], "True")

(* C20: for a page not marked for deletion, the page reconcile makes sure    *)
(* the finalizer is present and updates the page for it only when it was     *)
(* missing; for a page marked for deletion it never adds the finalizer.      *)
C20_FinalizerAddedOnlyWhenMissing ==
    [][\A p \in PageIds :
          (PageCall(call', p) /\ pages[p].exists)
          => /\ (~pages[p].deleting /\ pages[p].finalizer)
                => /\ \A res \in {"ok", "error"} : ~HasOp(call', "Update", "Page", p, res)
                   /\ pages'[p] = pages[p]
             /\ (~pages[p].deleting /\ ~pages[p].finalizer /\ HasOp(call', "Get", "Page", p, "ok"))
                => /\ \E res \in {"ok", "error"} : call'.ops[2] = Op("Update", "Page", p, res)
                   /\ HasOp(call', "Update", "Page", p, "ok")
                      => pages'[p] = [pages[p] EXCEPT !.finalizer = TRUE]
                   /\ HasOp(call', "Update", "Page", p, "error")
                      => pages'[p] = pages[p] /\ call'.err # NoErr
             /\ pages[p].deleting
                => (pages'[p].exists => pages'[p] = pages[p])]_vars

C20_Witness ==
    /\ PageCall(call, "p1")
    /\ Len(call.ops) >= 2
    /\ call.ops[2] = Op("Update", "Page", "p1", "ok")
    /\ pages["p1"].exists /\ pages["p1"].finalizer /\ ~pages["p1"].deleting

----------------------------------------------------------------------------
(* SpecPages: two WebServers and the pages "p1" and "p2", which may exist     *)
(* when the operator starts; the backend serves the Page controller without   *)
(* failure and the users create, edit and delete pages.                       *)

InitPages ==
    /\ webservers = [s \in WebNames |-> NewWebServer(DefaultImage, DefaultReplicas)]
    /\ deployments = [s \in WebNames |-> NoObj]
    /\ configMaps = [n \in CMNames |-> NoObj]
    /\ services = [s \in WebNames |-> NoObj]
    /\ ingresses = [s \in WebNames |-> NoObj]
    /\ pages \in [PageIds -> {NoObj} \cup
                    { NewPage(n, t, s) : n \in PageNames, t \in PageContents, s \in WebNames }]
    /\ Data = [s \in WebNames |-> Nil]
    /\ webQueue = WebNames
    /\ call = NoCall
    /\ nUser = 0
    /\ nFault = 0
    /\ AllIdle

NextPages ==
    \/ \E p \in PageIds : ReconcilePageOK(p)
    \/ \E p \in PageIds, n \in PageNames, t \in PageContents, s \in WebNames : CreatePage(p, n, t, s)
    \/ \E p \in PageIds, n \in PageNames, t \in PageContents, s \in WebNames : EditPage(p, n, t, s)
    \/ \E p \in PageIds : DeletePage(p)

SpecPages == InitPages /\ [][NextPages]_vars

----------------------------------------------------------------------------
(* SpecDrift: the WebServer "s1" exists; its spec is edited and the objects   *)
(* it owns are rewritten from outside while the controller reconciles it.    *)

InitDrift == InitWith({"s1"}) /\ webservers["s1"].exists

NextDrift ==
    \/ ReconcileWebServer("s1")
    \/ \E i \in Images, r \in ReplicaCounts : EditWebServer("s1", i, r)
    \/ \E k \in Tampered : TamperDeployment("s1", k)
    \/ \E d \in TamperedData : TamperConfigMap("s1", ConfigCMName("s1"), d)
    \/ \E d \in TamperedData : TamperConfigMap("s1", DataCMName("s1"), d)
    \/ \E n \in TamperedPorts : TamperService("s1", n)
    \/ \E b \in TamperedBackends : TamperIngress("s1", b)

SpecDrift == InitDrift /\ [][NextDrift]_vars

----------------------------------------------------------------------------
(* SpecLock: the path of the two controllers through the cache, statement by *)
(* statement.  The worker of the Page controller runs prepareData and        *)
(* setWebStatus, the worker of the WebServer controller runs reconcileDataCM; *)
(* both go through GetData and SetData, which lock Reconciler.mu, and both   *)
(* make backend calls, each of which is one step that may take any time.     *)
(* The calls followed are those for WebServer "s1".                          *)

\* What the steps of the workers leave alone.
Bookkeeping == <<call, nUser, nFault>>

At(w, loc) == worker[w].pc = loc

Goto(w, loc) == [worker EXCEPT ![w].pc = loc]

\* Reconcile of a page of WebServer s begins; prepareData is about to list.
BeginPage(w, s) ==
    /\ At(w, "idle")
    /\ webservers[s].exists
    /\ worker' = [worker EXCEPT ![w] = [Idle EXCEPT !.pc = "List", !.site = s]]
    /\ UNCHANGED <<webservers, deployments, configMaps, services, ingresses, pages,
                   Data, webQueue, mu, Bookkeeping>>

\* prepareData: r.List answers, and the loop builds newData.  The record of
\* the last call notes the List, until a user changes something.
ListPages(w) ==
    /\ At(w, "List")
    /\ LET s == worker[w].site
           listed == { p \in PageIds : pages[p].exists /\ pages[p].webserver = s }
       IN  /\ \E order \in Orders(listed) :
               worker' = [worker EXCEPT
                   ![w].newData =
                       Some(CollectData([i \in DOMAIN order |-> pages[order[i]]], 1, EmptyMap)),
                   ![w].pc = "GetData"]
           /\ call' = [ctrl |-> "prepareData", name |-> w, err |-> NoErr,
                       ops |-> <<Op("List", "Page", s, "ok")>>]
    /\ UNCHANGED <<webservers, deployments, configMaps, services, ingresses, pages,
                   Data, webQueue, mu, nUser, nFault>>

\* GetData, r.mu.Lock(): the caller waits until the mutex is free.
GetDataLock(w) ==
    /\ At(w, "GetData")
    /\ mu = Unlocked
    /\ mu' = w
    /\ worker' = Goto(w, "GetData.read")
    /\ UNCHANGED <<webservers, deployments, configMaps, services, ingresses, pages,
                   Data, webQueue, Bookkeeping>>

\* GetData, the operand of return: r.Data[webNsName].
GetDataRead(w) ==
    /\ At(w, "GetData.read")
    /\ worker' = [worker EXCEPT ![w].oldData = Data[worker[w].site], ![w].pc = "GetData.return"]
    /\ UNCHANGED <<webservers, deployments, configMaps, services, ingresses, pages,
                   Data, webQueue, mu, Bookkeeping>>

\* A GetData that returns without releasing the mutex.
GetDataReturn_KeepsLock(w) ==
    /\ At(w, "GetData.return")
    /\ worker' = Goto(w, IF w \in PageWorkers THEN "DataDiffer" ELSE "WriteConfigMap")
    /\ UNCHANGED <<webservers, deployments, configMaps, services, ingresses, pages,
                   Data, webQueue, mu, Bookkeeping>>

\* GetData returns: the deferred r.mu.Unlock() runs and the caller goes on.
GetDataReturn(w) ==
    /\ At(w, "GetData.return")
    /\ mu' = Unlocked
    /\ worker' = Goto(w, IF w \in PageWorkers THEN "DataDiffer" ELSE "WriteConfigMap")
    /\ UNCHANGED <<webservers, deployments, configMaps, services, ingresses, pages,
                   Data, webQueue, Bookkeeping>>

\* prepareData: r.DataDiffer(oldData, newData) decides whether to store.
CompareData(w) ==
    /\ At(w, "DataDiffer")
    /\ worker' = IF DataDiffer(worker[w].oldData, worker[w].newData)
                 THEN Goto(w, "SetData")
                 ELSE [worker EXCEPT ![w] = Idle]
    /\ UNCHANGED <<webservers, deployments, configMaps, services, ingresses, pages,
                   Data, webQueue, mu, Bookkeeping>>

\* SetData, r.mu.Lock().
SetDataLock(w) ==
    /\ At(w, "SetData")
    /\ mu = Unlocked
    /\ mu' = w
    /\ worker' = Goto(w, "SetData.write")
    /\ UNCHANGED <<webservers, deployments, configMaps, services, ingresses, pages,
                   Data, webQueue, Bookkeeping>>

\* SetData: r.Data[webNsName] = data.
SetDataWrite(w) ==
    /\ At(w, "SetData.write")
    /\ Data' = [Data EXCEPT ![worker[w].site] = worker[w].newData]
    /\ worker' = Goto(w, "SetData.return")
    /\ UNCHANGED <<webservers, deployments, configMaps, services, ingresses, pages,
                   webQueue, mu, Bookkeeping>>

\* SetData returns: the deferred r.mu.Unlock() runs; setWebStatus is next.
SetDataReturn(w) ==
    /\ At(w, "SetData.return")
    /\ mu' = Unlocked
    /\ worker' = Goto(w, "setWebStatus")
    /\ UNCHANGED <<webservers, deployments, configMaps, services, ingresses, pages,
                   Data, webQueue, Bookkeeping>>

\* setWebStatus: r.Update of the WebServer with the new hash answers.
UpdateAnnotation(w) ==
    /\ At(w, "setWebStatus")
    /\ LET s == worker[w].site
           old == webservers[s]
           new == [old EXCEPT !.pagesAnnotation = Some(makeHash(Val(worker[w].newData)))]
       IN  /\ webservers' = [webservers EXCEPT ![s] = new]
           /\ webQueue' = IF webServerEventFilter(old, new) THEN webQueue \cup {s} ELSE webQueue
    /\ worker' = [worker EXCEPT ![w] = Idle]
    /\ UNCHANGED <<deployments, configMaps, services, ingresses, pages, Data, mu, Bookkeeping>>

\* Reconcile of WebServer s has come to reconcileDataCM.
BeginDataCM(s) ==
    /\ At("webserver", "idle")
    /\ webservers[s].exists
    /\ worker' = [worker EXCEPT !["webserver"] = [Idle EXCEPT !.pc = "GetConfigMap", !.site = s]]
    /\ UNCHANGED <<webservers, deployments, configMaps, services, ingresses, pages,
                   Data, webQueue, mu, Bookkeeping>>

\* reconcileDataCM: r.Get of the data ConfigMap answers; GetData is next,
\* from createDataCM when it was not found and from reconcileDataCM when it was.
GetConfigMap ==
    /\ At("webserver", "GetConfigMap")
    /\ worker' = Goto("webserver", "GetData")
    /\ UNCHANGED <<webservers, deployments, configMaps, services, ingresses, pages,
                   Data, webQueue, mu, Bookkeeping>>

\* reconcileDataCM: the ConfigMap is created, or updated when it differs, with
\* the data that GetData returned.
WriteConfigMap ==
    /\ At("webserver", "WriteConfigMap")
    /\ LET s == worker["webserver"].site
           data == worker["webserver"].oldData
           configMap == configMaps[DataCMName(s)]
       IN  configMaps' =
               IF ~configMap.exists
               THEN [configMaps EXCEPT ![DataCMName(s)] =
                        [exists |-> TRUE, binaryData |-> StoredBinaryData(data), owner |-> s]]
               ELSE IF configMapDiffers(configMap, data)
               THEN [configMaps EXCEPT ![DataCMName(s)].binaryData = StoredBinaryData(data)]
               ELSE configMaps
    /\ worker' = [worker EXCEPT !["webserver"] = Idle]
    /\ UNCHANGED <<webservers, deployments, services, ingresses, pages, Data, webQueue,
                   mu, Bookkeeping>>

InitLock == InitPages /\ ~pages["p2"].exists

NextLock ==
    \/ BeginPage("page", "s1")
    \/ ListPages("page")
    \/ \E w \in Workers : GetDataLock(w)
    \/ \E w \in Workers : GetDataRead(w)
    \/ \E w \in Workers : GetDataReturn(w)
    \/ CompareData("page")
    \/ SetDataLock("page")
    \/ SetDataWrite("page")
    \/ SetDataReturn("page")
    \/ UpdateAnnotation("page")
    \/ BeginDataCM("s1")
    \/ GetConfigMap
    \/ WriteConfigMap
    \/ \E n \in PageNames, t \in PageContents, s \in WebNames : CreatePage("p1", n, t, s)
    \/ \E n \in PageNames, t \in PageContents, s \in WebNames : EditPage("p1", n, t, s)

SpecLock == InitLock /\ [][NextLock]_vars

----------------------------------------------------------------------------
(* SpecConditions: the WebServer "s1" exists when the operator starts, with  *)
(* any list of status conditions that older writers may have left: none, an  *)
(* Available condition, an UpToDate condition, or both in either order.      *)

AvailableConditions ==
    { Condition(typeAvailableWeb, "Unknown", "Reconciling", "Starting reconciliation"),
      Condition(typeAvailableWeb, "True", "Reconciling", "Finished reconciliation"),
      Condition(typeAvailableWeb, "False", "Reconciling", "Failed to create deployment") }

UpToDateConditions == { Condition("UpToDate", "False", "PageChanged", "Reconciling") }

ConditionLists ==
    {<<>>}
    \cup { <<a>> : a \in AvailableConditions \cup UpToDateConditions }
    \cup { <<a, u>> : a \in AvailableConditions, u \in UpToDateConditions }
    \cup { <<u, a>> : a \in AvailableConditions, u \in UpToDateConditions }

InitConditions ==
    /\ \E conds \in ConditionLists :
           webservers = [s \in WebNames |->
                           IF s = "s1"
                           THEN [NewWebServer(DefaultImage, DefaultReplicas)
                                    EXCEPT !.conditions = conds]
                           ELSE NoObj]
    /\ deployments = [s \in WebNames |-> NoObj]
    /\ configMaps = [n \in CMNames |-> NoObj]
    /\ services = [s \in WebNames |-> NoObj]
    /\ ingresses = [s \in WebNames |-> NoObj]
    /\ pages = [p \in PageIds |-> NoObj]
    /\ Data = [s \in WebNames |-> Nil]
    /\ webQueue = {"s1"}
    /\ call = NoCall
    /\ nUser = 0
    /\ nFault = 0
    /\ AllIdle

NextConditions ==
    \/ ReconcileWebServer("s1")
    \/ ReconcilePage("p1")
    \/ \E n \in PageNames, t \in PageContents : CreatePage("p1", n, t, "s1")
    \/ \E n \in PageNames, t \in PageContents : EditPage("p1", n, t, "s1")
    \/ DeletePage("p1")

SpecConditions == InitConditions /\ [][NextConditions]_vars

----------------------------------------------------------------------------
(* SpecRace: the Page controller with two workers.  The pages "p1" and "p2"  *)
(* of WebServer "s1" have different names; users edit their contents while   *)
(* the two workers reconcile them, statement by statement as in SpecLock.    *)

InitRace ==
    /\ InitPages
    /\ pages = [p \in PageIds |-> NewPage(IF p = "p1" THEN <<1>> ELSE <<1, 2>>, <<>>, "s1")]

NextRace ==
    \/ \E w \in PageWorkers : BeginPage(w, "s1")
    \/ \E w \in PageWorkers : ListPages(w)
    \/ \E w \in PageWorkers : GetDataLock(w)
    \/ \E w \in PageWorkers : GetDataRead(w)
    \/ \E w \in PageWorkers : GetDataReturn(w)
    \/ \E w \in PageWorkers : CompareData(w)
    \/ \E w \in PageWorkers : SetDataLock(w)
    \/ \E w \in PageWorkers : SetDataWrite(w)
    \/ \E w \in PageWorkers : SetDataReturn(w)
    \/ \E w \in PageWorkers : UpdateAnnotation(w)
    \/ \E p \in PageIds, t \in PageContents : EditPage(p, pages[p].name, t, "s1")

SpecRace == InitRace /\ [][NextRace]_vars

----------------------------------------------------------------------------
(* SpecLive: the Page "p1" in the hands of a user, who may also delete the   *)
(* WebServer "s1".  The reconcile request of the page keeps being delivered, *)
(* and a delivery in which no backend call fails always comes in the end.    *)

InitLive == InitWith({"s1"})

NextLive ==
    \/ ReconcilePageOK("p1")
    \/ ReconcilePage("p1")
    \/ \E n \in PageNames, t \in PageContents, s \in WebNames : CreatePage("p1", n, t, s)
    \/ DeletePage("p1")
    \/ DeleteWebServer("s1")

SpecLive == InitLive /\ [][NextLive]_vars /\ WF_vars(ReconcilePageOK("p1"))

----------------------------------------------------------------------------
(* C21..C30 *)

\* The call fetched the WebServer s and the fetch answered res.
FetchedWebServer(c, s, res) == HasOp(c, "Get", "WebServer", s, res)

\* The error a failed fetch of the WebServer produces.
FetchError(res) == IF res = "notfound" THEN ErrNotFound ELSE Err("Get", "WebServer")

\* C21: when the WebServer a page refers to cannot be fetched, because it is
\* not found or because the Get fails, the Page Reconcile call returns that
\* error, the failed Get is the last thing the call does, and the call lists no
\* pages, reads and writes no cache entry, updates no WebServer and removes no
\* finalizer: the cache and the WebServers are as before, and a page marked
\* for deletion is still there with its finalizer.
C21_UnfetchableWebServerStopsPageReconcile ==
    [][\A p \in PageIds, s \in WebNames, res \in {"notfound", "error"} :
         ( /\ PageCall(call', p)
           /\ FetchedWebServer(call', s, res) )
         => /\ call'.err = FetchError(res)
            /\ call'.ops[Len(call'.ops)] = Op("Get", "WebServer", s, res)
            /\ \A i \in 1..Len(call'.ops) :
                   /\ call'.ops[i].verb \notin {"List", "GetData", "SetData"}
                   /\ ~(call'.ops[i].verb = "Update" /\ call'.ops[i].kind = "WebServer")
            /\ Data' = Data
            /\ webservers' = webservers
            /\ pages[p].deleting => pages'[p] = pages[p]
    ]_vars

\* A page marked for deletion was reconciled, the Get of its WebServer
\* failed, and the page is still there with its finalizer.
C21_Witness ==
    /\ PageCall(call, "p1")
    /\ \E s \in WebNames : FetchedWebServer(call, s, "error")
    /\ call.err = Err("Get", "WebServer")
    /\ pages["p1"].exists /\ pages["p1"].deleting /\ pages["p1"].finalizer

\* The same for a WebServer that does not exist.
C21_WitnessNotFound ==
    /\ PageCall(call, "p1")
    /\ \E s \in WebNames : FetchedWebServer(call, s, "notfound")
    /\ call.err = ErrNotFound

\* The pages that List returns for WebServer s and that are not marked for deletion.
Contributing(s) ==
    { q \in PageIds : pages[q].exists /\ pages[q].webserver = s /\ ~pages[q].deleting }

\* The call listed the pages of s, and so recomputed the data of s.
Recomputed(c, s) == HasOp(c, "List", "Page", s, "ok")

\* C22 as stated: the data recomputed for WebServer s holds an entry
\* name -> contents for exactly the pages of s that are not marked for deletion.
C22_EntryForEveryLivePage ==
    [][\A p \in PageIds, s \in WebNames :
         (PageCall(call', p) /\ Recomputed(call', s))
         => KV(Data'[s]) = { <<pages[q].name, pages[q].contents>> : q \in Contributing(s) }
    ]_vars

\* C22, amended: the keys of the data recomputed for WebServer s are exactly
\* the names of the pages of s that are not marked for deletion, and each value
\* is the contents of such a page of that name; no page of another WebServer
\* and no page marked for deletion, the reconciled page included, contributes.
\* Where the names are distinct this is one entry per page.
C22_DataComesFromLivePagesOfTheSite ==
    [][\A p \in PageIds, s \in WebNames :
         (PageCall(call', p) /\ Recomputed(call', s))
         => /\ { e[1] : e \in KV(Data'[s]) } = { pages[q].name : q \in Contributing(s) }
            /\ KV(Data'[s]) \subseteq
                   { <<pages[q].name, pages[q].contents>> : q \in Contributing(s) }
            /\ (\A q1, q2 \in Contributing(s) : pages[q1].name = pages[q2].name => q1 = q2)
               => KV(Data'[s]) = { <<pages[q].name, pages[q].contents>> : q \in Contributing(s) }
    ]_vars

\* The page "p1", marked for deletion, was reconciled while "p2" belongs to
\* another WebServer: the data of s1 is recomputed and holds neither.
C22_Witness ==
    /\ PageCall(call, "p1")
    /\ Recomputed(call, "s1")
    /\ HasOp(call, "Item", "Page", "p1", "ok")
    /\ HasOp(call, "SetData", "Data", "s1", "ok")
    /\ ~pages["p1"].exists
    /\ pages["p2"].exists /\ pages["p2"].webserver = "s2"
    /\ Data["s1"] = Some(EmptyMap)

\* The page of name n, not marked for deletion, that comes last in the list
\* the call received.
LastListed(c, n) ==
    LET at == { i \in 1..Len(c.ops) :
                  /\ c.ops[i].verb = "Item"
                  /\ pages[c.ops[i].name].name = n
                  /\ ~pages[c.ops[i].name].deleting }
    IN  c.ops[CHOOSE i \in at : \A j \in at : j <= i].name

\* C30: when two pages of WebServer s that are not marked for deletion have
\* the same name n, the Page Reconcile call that recomputes the data of s
\* returns no error, the data holds one entry for n whose value is the contents
\* of the page of that name listed last, and the data has fewer keys than
\* there are contributing pages.
C30_LastListedPageWinsTheName ==
    [][\A p \in PageIds, s \in WebNames, n \in PageNames :
         ( /\ PageCall(call', p)
           /\ Recomputed(call', s)
           /\ \E q1, q2 \in Contributing(s) :
                  q1 # q2 /\ pages[q1].name = n /\ pages[q2].name = n )
         => /\ call'.err = NoErr
            /\ ~IsNil(Data'[s])
            /\ n \in DOMAIN Val(Data'[s])
            /\ Val(Data'[s])[n] = pages[LastListed(call', n)].contents
            /\ Cardinality(DOMAIN Val(Data'[s])) < Cardinality(Contributing(s))
    ]_vars

\* Two pages of s1 have the same name and different contents; "p1" was listed
\* before "p2" and the data of s1 holds the contents of "p2" under one key.
C30_Witness ==
    /\ call.ctrl = "page"
    /\ call.err = NoErr
    /\ \E i, j \in 1..Len(call.ops) :
           /\ i < j
           /\ call.ops[i] = Op("Item", "Page", "p1", "ok")
           /\ call.ops[j] = Op("Item", "Page", "p2", "ok")
    /\ HasOp(call, "SetData", "Data", "s1", "ok")
    /\ Contributing("s1") = {"p1", "p2"}
    /\ pages["p1"].name = pages["p2"].name
    /\ pages["p1"].contents # pages["p2"].contents
    /\ Data["s1"] = Some([k \in {pages["p2"].name} |-> pages["p2"].contents])

\* C23: after a webserver Reconcile call for an existing WebServer that
\* returned no error, the Deployment exists, has exactly one container, whose
\* image is the image of the WebServer spec, and has the replica count of the spec.
C23_SuccessMeansDeploymentMatchesSpec ==
    \A s \in WebNames :
        (WebCall(call, s) /\ call.err = NoErr /\ webservers[s].exists)
        => /\ deployments[s].exists
           /\ deployments[s].containers = <<webservers[s].image>>
           /\ deployments[s].replicas = webservers[s].replicas

\* WebServer s1 with image "x:1", two replicas and no pages was reconciled
\* with success: the Deployment has two replicas of "x:1", the data ConfigMap
\* is empty and Available is True.
C23_Witness ==
    /\ WebCall(call, "s1") /\ call.err = NoErr
    /\ HasOp(call, "Create", "Deployment", "s1", "ok")
    /\ webservers["s1"].exists
    /\ webservers["s1"].image = "x:1" /\ webservers["s1"].replicas = 2
    /\ deployments["s1"].exists
    /\ deployments["s1"].containers = <<"x:1">> /\ deployments["s1"].replicas = 2
    /\ ~pages["p1"].exists
    /\ configMaps[DataCMName("s1")].exists
    /\ IsNil(configMaps[DataCMName("s1")].binaryData)
    /\ AvailableIs(webservers["s1"], "True")

\* The call issued an Update or a Delete of the object of this kind and name.
Rewrites(c, kind, name) ==
    \E i \in 1..Len(c.ops) :
        c.ops[i].verb \in {"Update", "Delete"} /\ c.ops[i].kind = kind /\ c.ops[i].name = name

C24_WitnessService ==
    /\ WebCall(call, "s1") /\ call.err = NoErr
    /\ services["s1"].exists /\ services["s1"].port # 80

C24_WitnessIngress ==
    /\ WebCall(call, "s1") /\ call.err = NoErr
    /\ ingresses["s1"].exists /\ ingresses["s1"].backend # "s1"

\* The ensure-step of WebServer s that a backend call belongs to: 1 the
\* Deployment, 2 the config ConfigMap, 3 the data ConfigMap, 4 the Service,
\* 5 the Ingress, and 0 for any other call.
StepOf(o, s) ==
    IF o.verb \notin {"Get", "Create", "Update", "Delete"} THEN 0
    ELSE IF o.kind = "Deployment" THEN 1
    ELSE IF o.kind = "ConfigMap" /\ o.name = ConfigCMName(s) THEN 2
    ELSE IF o.kind = "ConfigMap" /\ o.name = DataCMName(s) THEN 3
    ELSE IF o.kind = "Service" THEN 4
    ELSE IF o.kind = "Ingress" THEN 5
    ELSE 0

\* The backend call made its step fail: it returned an error, or it is the
\* Delete of a Deployment with a wrong number of containers.
FailsStep(o) == o.res = "error" \/ o.verb = "Delete"

\* C25: in a webserver Reconcile call the backend calls of the ensure-steps
\* come in the order Deployment, config ConfigMap, data ConfigMap, Service,
\* Ingress; each step begins with the Get of its object; and a step is begun
\* only when every step before it was run and none of its calls failed, so
\* that after a failed step no later object is fetched, created or updated.
C25_StepsRunInOrderUntilOneFails ==
    \A s \in WebNames :
        WebCall(call, s)
        => \A j \in 1..Len(call.ops) :
               LET k == StepOf(call.ops[j], s)
               IN  k > 0
                   => /\ \A i \in 1..(j - 1) : StepOf(call.ops[i], s) <= k
                      /\ (\A i \in 1..(j - 1) : StepOf(call.ops[i], s) # k)
                         => call.ops[j].verb = "Get"
                      /\ \A e \in 1..(k - 1) :
                             /\ \E i \in 1..(j - 1) : StepOf(call.ops[i], s) = e
                             /\ \A i \in 1..(j - 1) :
                                    StepOf(call.ops[i], s) = e => ~FailsStep(call.ops[i])

\* The Create of the Service failed after the three steps before it had
\* succeeded: the call returned the error and did not touch the Ingress.
C25_Witness ==
    /\ WebCall(call, "s1")
    /\ call.err = Err("Create", "Service")
    /\ HasOp(call, "Create", "Deployment", "s1", "ok")
    /\ HasOp(call, "Create", "ConfigMap", ConfigCMName("s1"), "ok")
    /\ HasOp(call, "Create", "ConfigMap", DataCMName("s1"), "ok")
    /\ HasOp(call, "Create", "Service", "s1", "error")
    /\ \A i \in 1..Len(call.ops) : call.ops[i].kind # "Ingress"
    /\ ~ingresses["s1"].exists

\* All five steps ran, in their order.
C25_WitnessAllSteps ==
    /\ WebCall(call, "s1") /\ call.err = NoErr
    /\ SelectSeq(call.ops, LAMBDA o : StepOf(o, "s1") > 0 /\ o.verb = "Get")
         = << Op("Get", "Deployment", "s1", "notfound"),
              Op("Get", "ConfigMap", ConfigCMName("s1"), "notfound"),
              Op("Get", "ConfigMap", DataCMName("s1"), "notfound"),
              Op("Get", "Service", "s1", "notfound"),
              Op("Get", "Ingress", "s1", "notfound") >>

\* The worker is about to read or write the map r.Data.
AccessesMap(w) == At(w, "GetData.read") \/ At(w, "SetData.write")

\* The worker is inside GetData or SetData, past the Lock.
InsideCacheCall(w) ==
    worker[w].pc \in {"GetData.read", "GetData.return", "SetData.write", "SetData.return"}

\* The worker is in a backend call, which may take any time to answer.
InBackendCall(w) ==
    worker[w].pc \in {"List", "setWebStatus", "GetConfigMap", "WriteConfigMap"}

\* C26: a worker holds the mutex of the cache exactly while it is inside
\* GetData or SetData, past the Lock; two workers never access the map at the
\* same time; and a worker in a backend call does not hold the mutex, so that
\* a backend call that does not answer leaves the mutex free for the other worker.
C26_LockHeldOnlyAroundTheMap ==
    /\ \A w \in Workers : (mu = w) <=> InsideCacheCall(w)
    /\ \A w1, w2 \in Workers : (AccessesMap(w1) /\ AccessesMap(w2)) => w1 = w2
    /\ \A w \in Workers : InBackendCall(w) => mu # w
    /\ \A w1, w2 \in Workers :
           (InBackendCall(w1) /\ w2 # w1 /\ (At(w2, "GetData") \/ At(w2, "SetData")))
           => mu = Unlocked

\* The Page worker has stored new data and waits for the answer to its Update
\* of the WebServer, while the WebServer worker reads the map under the mutex.
C26_Witness ==
    /\ At("page", "setWebStatus")
    /\ At("webserver", "GetData.read")
    /\ mu = "webserver"
    /\ worker["page"].site = worker["webserver"].site
    /\ Data[worker["page"].site] = worker["page"].newData
    /\ KV(worker["page"].newData) # {}

\* One worker waits for the mutex while the other is about to write the map.
C26_WitnessWaiting ==
    /\ At("page", "SetData.write")
    /\ At("webserver", "GetData")
    /\ mu = "page"

\* Every entry of conds that is not of the given type is in the same place in
\* after, and after holds no entry of another type that conds does not.
OthersUntouched(conds, after, type) ==
    /\ \A i \in 1..Len(conds) : conds[i].type # type => i <= Len(after) /\ after[i] = conds[i]
    /\ \A i \in 1..Len(after) : after[i].type # type => i <= Len(conds) /\ conds[i] = after[i]

\* C27: a webserver Reconcile call leaves every status condition that is not
\* Available as it is and where it is, and adds none; a Page Reconcile call
\* leaves every condition that is not UpToDate, Available above all, as it is
\* and where it is, and adds none.
C27_OtherConditionsKeepValueAndPlace ==
    [][/\ \A s \in WebNames :
            (WebCall(call', s) /\ webservers[s].exists)
            => OthersUntouched(webservers[s].conditions, webservers'[s].conditions,
                               typeAvailableWeb)
       /\ \A p \in PageIds, s \in WebNames :
            (PageCall(call', p) /\ webservers[s].exists)
            => OthersUntouched(webservers[s].conditions, webservers'[s].conditions,
                               "UpToDate")
    ]_vars

\* The list holds an UpToDate condition first; a webserver call wrote
\* Available=True behind it and left the UpToDate condition alone.
C27_Witness ==
    /\ WebCall(call, "s1") /\ call.err = NoErr
    /\ HasOp(call, "StatusUpdate", "WebServer", "s1", "ok")
    /\ Len(webservers["s1"].conditions) = 2
    /\ webservers["s1"].conditions[1] \in UpToDateConditions
    /\ webservers["s1"].conditions[2] =
           Condition(typeAvailableWeb, "True", "Reconciling", "Finished reconciliation")

\* A Page call updated a WebServer whose list holds Available before UpToDate.
C27_WitnessPage ==
    /\ PageCall(call, "p1") /\ call.err = NoErr
    /\ HasOp(call, "Update", "WebServer", "s1", "ok")
    /\ Len(webservers["s1"].conditions) = 2
    /\ webservers["s1"].conditions[1].type = typeAvailableWeb

\* The call fetched the WebServer s at its start.
FetchedAtStart(c, s) == Len(c.ops) >= 1 /\ c.ops[1] = Op("Get", "WebServer", s, "ok")

\* The call wrote the status once, as its second backend call, and with success.
OnlyInitialStatusWrite(c, s) ==
    /\ Len(c.ops) >= 2
    /\ c.ops[2] = Op("StatusUpdate", "WebServer", s, "ok")
    /\ \A i \in 3..Len(c.ops) : c.ops[i].verb # "StatusUpdate"

\* What the call does first when the fetched WebServer has no condition: it
\* writes the status, and after a successful write fetches the WebServer
\* again, all before the first call of an ensure-step.
WritesStatusFirst(c, s) ==
    /\ Len(c.ops) >= 2
    /\ c.ops[2].verb = "StatusUpdate" /\ c.ops[2].kind = "WebServer" /\ c.ops[2].name = s
    /\ c.ops[2].res = "error" => (Len(c.ops) = 2 /\ c.err = Err("StatusUpdate", "WebServer"))
    /\ c.ops[2].res = "ok"
       => /\ Len(c.ops) >= 3
          /\ c.ops[3].verb = "Get" /\ c.ops[3].kind = "WebServer" /\ c.ops[3].name = s
          /\ c.ops[3].res = "error" => (Len(c.ops) = 3 /\ c.err = Err("Get", "WebServer"))
    /\ \A i \in 1..Len(c.ops) : StepOf(c.ops[i], s) > 0 => i > 3

\* What the call does first when the fetched WebServer has a condition: it
\* begins the first ensure-step, and writes no status before it.
SkipsInitialWrite(c, s) ==
    /\ Len(c.ops) >= 2
    /\ c.ops[2].verb = "Get" /\ c.ops[2].kind = "Deployment" /\ c.ops[2].name = s

\* C28 as stated: the condition the call writes first into an empty list is
\* Available=Unknown with the reason "Starting reconciliation".
C28_InitialReasonIsStartingReconciliation ==
    [][\A s \in WebNames :
         ( /\ WebCall(call', s) /\ FetchedAtStart(call', s)
           /\ webservers[s].conditions = <<>>
           /\ OnlyInitialStatusWrite(call', s) )
         => /\ Len(webservers'[s].conditions) = 1
            /\ webservers'[s].conditions[1].type = typeAvailableWeb
            /\ webservers'[s].conditions[1].status = "Unknown"
            /\ webservers'[s].conditions[1].reason = "Starting reconciliation"
    ]_vars

\* C28, amended: a webserver Reconcile call that fetched a WebServer without
\* conditions first writes the status, with the one condition Available=Unknown
\* of reason "Reconciling" and message "Starting reconciliation", and fetches
\* the WebServer again, before any ensure-step; when the list is not empty
\* the call goes to the first ensure-step at once.
C28_InitialUnknownOnlyForEmptyConditions ==
    [][\A s \in WebNames :
         (WebCall(call', s) /\ FetchedAtStart(call', s))
         => /\ webservers[s].conditions = <<>> => WritesStatusFirst(call', s)
            /\ (webservers[s].conditions = <<>> /\ OnlyInitialStatusWrite(call', s))
               => webservers'[s].conditions =
                      << Condition(typeAvailableWeb, "Unknown", "Reconciling",
                                   "Starting reconciliation") >>
            /\ webservers[s].conditions # <<>> => SkipsInitialWrite(call', s)
    ]_vars

\* The list was empty; the call wrote Available=Unknown, and its second fetch
\* of the WebServer failed, so that the Unknown condition is what is stored.
C28_Witness ==
    /\ WebCall(call, "s1")
    /\ call.ops = << Op("Get", "WebServer", "s1", "ok"),
                     Op("StatusUpdate", "WebServer", "s1", "ok"),
                     Op("Get", "WebServer", "s1", "error") >>
    /\ webservers["s1"].conditions =
           << Condition(typeAvailableWeb, "Unknown", "Reconciling", "Starting reconciliation") >>

\* The list held an UpToDate condition only: the call went to the Deployment
\* at once and wrote the status a single time, at its end.
C28_WitnessSkipped ==
    /\ WebCall(call, "s1") /\ call.err = NoErr
    /\ SkipsInitialWrite(call, "s1")
    /\ Len(SelectSeq(call.ops, LAMBDA o : o.verb = "StatusUpdate")) = 1
    /\ Len(webservers["s1"].conditions) = 2
    /\ webservers["s1"].conditions[1] \in UpToDateConditions
    /\ HasOp(call, "Create", "Deployment", "s1", "ok")

\* The data that the call computed for WebServer s from the list it received.
NewDataOf(c, s) ==
    [n \in { pages[q].name : q \in Contributing(s) } |-> pages[LastListed(c, n)].contents]

\* C29: when the data a Page Reconcile call recomputes for WebServer s does
\* not differ, by the rule of the cache, from the data cached for s, the call
\* writes no cache entry and issues no Update of a WebServer: the cache and
\* the WebServers, hash annotation and conditions included, are as before.
C29_UnchangedDataWritesNothing ==
    [][\A p \in PageIds, s \in WebNames :
         ( /\ PageCall(call', p)
           /\ Recomputed(call', s)
           /\ ~Differing(Data[s], Some(NewDataOf(call', s))) )
         => /\ ~HasOp(call', "SetData", "Data", s, "ok")
            /\ \A i \in 1..Len(call'.ops) :
                   ~(call'.ops[i].verb = "Update" /\ call'.ops[i].kind = "WebServer")
            /\ Data' = Data
            /\ webservers' = webservers
    ]_vars

\* A page of s1 was reconciled again while the cache already held its data:
\* the call read the cache and wrote nothing.
C29_Witness ==
    /\ PageCall(call, "p1") /\ call.err = NoErr
    /\ Recomputed(call, "s1")
    /\ HasOp(call, "GetData", "Data", "s1", "ok")
    /\ ~HasOp(call, "SetData", "Data", "s1", "ok")
    /\ ~HasOp(call, "Update", "WebServer", "s1", "ok")
    /\ pages["p1"].exists /\ ~pages["p1"].deleting
    /\ KV(Data["s1"]) # {}
    /\ ~IsNil(webservers["s1"].pagesAnnotation)

----------------------------------------------------------------------------
(* C31..C37 *)

\* The "pages" annotation of WebServer s is the hash of the data cached for s.
AnnotationMatchesCache(s) ==
    webservers[s].pagesAnnotation = Some(makeHash(Val(Data[s])))

\* C31: when a Page Reconcile call of a page of WebServer s returns success
\* and the cache holds data for s, the "pages" annotation stored in s is the
\* hash of that data.  Stated here for the call that retries a call in which
\* the Update of the WebServer failed: the annotation then equals the hash of
\* the cached data in the state the retry leaves.
C31_AnnotationFollowsCacheAfterRetry ==
    [][\A p \in PageIds, s \in WebNames :
         ( /\ PageCall(call, p)
           /\ call.err = Err("Update", "WebServer")
           /\ HasOp(call, "SetData", "Data", s, "ok")
           /\ PageCall(call', p)
           /\ call'.err = NoErr
           /\ FaultFree(call')
           /\ Recomputed(call', s)
           /\ webservers'[s].exists
           /\ ~IsNil(Data'[s]) )
         => webservers'[s].pagesAnnotation = Some(makeHash(Val(Data'[s])))
    ]_vars

\* The name -> contents pairs of the pages of s that are not marked for deletion.
LivePairs(s) == { <<pages[q].name, pages[q].contents>> : q \in Contributing(s) }

C33_DeletingPageIsReleased ==
    (pages["p1"].exists /\ pages["p1"].deleting) ~> ~pages["p1"].exists

\* The names that the data cached for WebServer s holds.
CachedNames(s) == { e[1] : e \in KV(Data[s]) }

\* C34: after a successful Page Reconcile call of a page whose WebServer
\* reference was edited from one WebServer to another, the data cached for
\* the WebServer it now refers to holds its entry and the data cached for the
\* other WebServer holds no entry of its name.  "p1" is the only page there is,
\* so that an entry of its name in the cache can only be its own.
C34_MovedPageLeavesOldAggregate ==
    \A s \in WebNames :
        ( /\ PageCall(call, "p1") /\ call.err = NoErr
          /\ pages["p1"].exists /\ ~pages["p1"].deleting
          /\ pages["p1"].webserver = s
          /\ Recomputed(call, s) )
        => /\ <<pages["p1"].name, pages["p1"].contents>> \in KV(Data[s])
           /\ \A other \in WebNames \ {s} : pages["p1"].name \notin CachedNames(other)

\* No other page has the name of page p.
NameIsItsOwn(p) ==
    \A q \in PageIds \ {p} : pages[q].exists => pages[q].name # pages[p].name

\* C35: every page whose entry the data cached for its WebServer holds has
\* the finalizer, also when the data was recomputed by the reconcile of
\* another page before the page's own first reconcile.  Stated for pages whose
\* name no other page has, so that the entry under that name is theirs.
C35_CachedPageHasFinalizer ==
    \A p \in PageIds :
        ( /\ pages[p].exists
          /\ NameIsItsOwn(p)
          /\ <<pages[p].name, pages[p].contents>> \in KV(Data[pages[p].webserver]) )
        => pages[p].finalizer

\* C36: two present page-data maps that DataDiffer reports as different get
\* different digests from makeHash, because the bytes fed to the digest (each
\* key followed by its value) differ.
C36_DifferentDataDifferentDigest ==
    ( /\ call.ctrl = "makeHash"
      /\ DataDiffer(Data["s1"], Data["s2"]) )
    => call.ops[1].digest # call.ops[1].other

\* Page p exists, is not being deleted and names WebServer s.
LivePageOf(p, s) ==
    /\ pages[p].exists
    /\ ~pages[p].deleting
    /\ pages[p].webserver = s

\* C37: a WebServer reconcile never removes the entry of a live page from an
\* existing data ConfigMap; in particular a call made while the cache holds no
\* data for the WebServer (after a restart) leaves the entry in place.
C37_WebReconcileKeepsLivePageEntries ==
    [][ \A s \in WebNames, p \in PageIds :
            ( /\ WebCall(call', s)
              /\ IsNil(Data[s])
              /\ configMaps[DataCMName(s)].exists
              /\ LivePageOf(p, s)
              /\ <<pages[p].name, pages[p].contents>>
                     \in KV(configMaps[DataCMName(s)].binaryData) )
            => /\ configMaps'[DataCMName(s)].exists
               /\ <<pages[p].name, pages[p].contents>>
                      \in KV(configMaps'[DataCMName(s)].binaryData) ]_vars

====
